---- MODULE Spec2Model ----
(***************************************************************************)
(* Invoice lineage and billing ledger of the project-billing backend.      *)
(*                                                                         *)
(* The relational store is modelled table by table: projects, contracts,  *)
(* contract_tasks, invoices, invoice_line_items, proposals, proposal_tasks,*)
(* clients and employees.  Every HTTP handler is                           *)
(* one action that runs its statements in order and commits.  Strings that *)
(* the code formats and parses (invoice numbers) are sequences of          *)
(* one-character strings, so formatting and parsing are computed.          *)
(*                                                                         *)
(* The handlers read request fields (invoice_number, skip_sheet,           *)
(* line_items) that routers/contracts.py and routers/invoices.py use; the  *)
(* model takes the handler bodies as written and treats those fields as    *)
(* request inputs.                                                         *)
(***************************************************************************)
EXTENDS Integers, Sequences, FiniteSets, TLC

VARIABLES projects, contracts, contract_tasks, invoices, invoice_line_items,
          proposals, proposal_tasks, clients, employees,
          clock, inflight, last, billed_before

vars == <<projects, contracts, contract_tasks, invoices, invoice_line_items,
          proposals, proposal_tasks, clients, employees,
          clock, inflight, last, billed_before>>

\* the tables the invoice handlers never write
crm == <<proposals, proposal_tasks, clients, employees>>

db == <<projects, contracts, contract_tasks, invoices, invoice_line_items, crm>>

(***************************************************************************)
(* Bounds                                                                  *)
(***************************************************************************)
MaxInvoices == 2

MaxInflight == 2

\* rows of the invoices table when one contract's chain is followed
MaxChain == 3

(***************************************************************************)
(* NULL markers.  Row ids of invoices are positions in the invoices table  *)
(* (1..Len), so 0 is the NULL id; timestamps are clock values >= 1, so 0   *)
(* is the NULL timestamp; the empty string is NULL for text columns        *)
(* (Python treats both as falsy).                                          *)
(***************************************************************************)
NullId == 0

NullTime == 0

NullText == <<>>

NoContract == "NULL"

Absent == -1

(***************************************************************************)
(* Text helpers: str(int), int(str), str.isdigit, str.rsplit("-", 1)       *)
(***************************************************************************)
Digits == <<"0", "1", "2", "3", "4", "5", "6", "7", "8", "9">>

IsDigitChar(c) == \E d \in 1..10 : Digits[d] = c

DigitVal(c) == (CHOOSE d \in 1..10 : Digits[d] = c) - 1

\* str.isdigit(): non-empty and every character is a digit
isdigit(s) == Len(s) > 0 /\ \A k \in 1..Len(s) : IsDigitChar(s[k])

RECURSIVE int(_)
\* int(s) for a string of decimal digits
int(s) ==
    IF Len(s) = 0 THEN 0
    ELSE 10 * int(SubSeq(s, 1, Len(s) - 1)) + DigitVal(s[Len(s)])

RECURSIVE str(_)
\* str(n) for n >= 0
str(n) ==
    IF n < 10 THEN <<Digits[n + 1]>>
    ELSE str(n \div 10) \o <<Digits[(n % 10) + 1]>>

\* position of the last "-" in s, 0 when there is none
LastDash(s) ==
    IF \E k \in 1..Len(s) : s[k] = "-"
    THEN CHOOSE k \in 1..Len(s) :
            s[k] = "-" /\ \A j \in (k + 1)..Len(s) : s[j] # "-"
    ELSE 0

\* s.rsplit("-", 1)
rsplit(s) ==
    IF LastDash(s) = 0 THEN <<s>>
    ELSE <<SubSeq(s, 1, LastDash(s) - 1), SubSeq(s, LastDash(s) + 1, Len(s))>>

\* f"{prefix}-{n}"; a None prefix is rendered by Python as the text None
NoneText == <<"N", "o", "n", "e">>

FormatNumber(prefix, n) ==
    (IF prefix = NullText THEN NoneText ELSE prefix) \o <<"-">> \o str(n)

(***************************************************************************)
(* Fixed universe of the model                                             *)
(***************************************************************************)
ProjectIds == {"P1", "P2"}

ContractIds == {"c1", "c2"}

TaskIds == {"t1", "t2", "t3"}

\* proposal q1 has two tasks, proposal q2 has none
ProposalIds == {"q1", "q2"}

ProposalTaskIds == {"pt1", "pt2"}

ClientIds == {"cl1"}

EmployeeIds == {"e1"}

\* the text of a project id, as used by f-strings
IdText(p) == IF p = "P1" THEN <<"P", "1">> ELSE <<"P", "2">>

SeqSum(s) ==
    LET RECURSIVE go(_)
        go(k) == IF k = 0 THEN 0 ELSE go(k - 1) + s[k]
    IN go(Len(s))

\* a set of integers as an ascending sequence
RECURSIVE Ascending(_)
Ascending(S) ==
    IF S = {} THEN <<>>
    ELSE LET m == CHOOSE x \in S : \A y \in S : x <= y
         IN <<m>> \o Ascending(S \ {m})

(***************************************************************************)
(* Request inputs                                                          *)
(***************************************************************************)
\* invoice_number supplied by the caller (NullText: not supplied)
NumberInputs == {NullText}

TotalDueInputs == {100}

\* a status field that the request leaves out (None)
NoStatus == "None"

\* one dict of the line_items list of a PATCH; Absent marks a missing key
LineItemEdit(quantity, unit_price, previous_billing) ==
    [quantity |-> quantity, unit_price |-> unit_price,
     previous_billing |-> previous_billing]

InvoiceUpdate(sent_status, total_due, has_line_items, line_items) ==
    [sent_status |-> sent_status, total_due |-> total_due,
     has_line_items |-> has_line_items, line_items |-> line_items]

\* bodies of PATCH /invoices/{id}
InvoiceUpdates ==
    { InvoiceUpdate(NoStatus, Absent, FALSE, <<>>),
      InvoiceUpdate("sent", Absent, FALSE, <<>>),
      InvoiceUpdate(NoStatus, Absent, TRUE, <<LineItemEdit(50, 100, Absent)>>) }

TaskSpec(t, pct) == [task_id |-> t, percent_this_invoice |-> pct]

\* bodies of POST /contracts/{id}/invoices: the tasks list
TaskLists ==
    { <<TaskSpec("t2", 100), TaskSpec("t1", 50)>>,
      <<TaskSpec("t3", 100)>>,
      <<TaskSpec("t1", 50), TaskSpec("t3", 50)>> }

(***************************************************************************)
(* Initial state: two projects, two contracts of P1 with their tasks, no   *)
(* invoices.  P1 has a job code and a project number, P2 has neither.      *)
(* Task Build has a zero fee; both contracts have a task Design.           *)
(***************************************************************************)
NoClient == "NULL"

Project(job_code, project_number, client_id) ==
    [job_code |-> job_code, project_number |-> project_number,
     client_id |-> client_id,
     status |-> "proposal",
     current_invoice_id |-> NullId, deleted_at |-> NullTime]

Contract(project_id, total_amount, now) ==
    [project_id |-> project_id, total_amount |-> total_amount,
     created_at |-> now, deleted_at |-> NullTime]

Proposal(project_id, total_fee, now) ==
    [project_id |-> project_id, total_fee |-> total_fee, status |-> "draft",
     created_at |-> now, deleted_at |-> NullTime]

ProposalTask(proposal_id, sort_order, name, description, amount) ==
    [proposal_id |-> proposal_id, sort_order |-> sort_order,
     name |-> name, description |-> description, amount |-> amount]

\* a clients or employees row, as far as the reads below look at it
Person == [deleted_at |-> NullTime]

\* a clients row with its accounting_email
Client(accounting_email) == Person @@ [accounting_email |-> accounting_email]

ContractTask(contract_id, sort_order, name, amount) ==
    [contract_id |-> contract_id, sort_order |-> sort_order,
     name |-> name, amount |-> amount]

\* last: the handler that ran last, its HTTP status and the invoice id of its
\* path (NullId for a handler whose path names no invoice)
Response(op, status, id) ==
    [op |-> op, status |-> status, id |-> id, warning |-> FALSE]

NoResponse == Response("none", 0, NullId)

\* billed_before is a history variable: what the contracts' reads reported just
\* before the last request, kept when that request created an invoice from a
\* contract and empty otherwise
NoSnapshot == <<>>

Init ==
    /\ projects = [p \in ProjectIds |->
                      IF p = "P1"
                      THEN Project(<<"J", "-", "X">>, <<"2", "6", "-", "0", "0", "1">>,
                                   "cl1")
                      ELSE Project(NullText, NullText, NoClient)]
    /\ contracts = [c \in ContractIds |->
                       Contract("P1", IF c = "c1" THEN 200 ELSE 100, 0)]
    /\ proposals = [q \in ProposalIds |->
                       Proposal("P1", IF q = "q1" THEN 300 ELSE 0, 0)]
    /\ proposal_tasks =
          [t \in ProposalTaskIds |->
             CASE t = "pt1" -> ProposalTask("q1", 1, "Survey", <<"s">>, 100)
               [] t = "pt2" -> ProposalTask("q1", 2, "Design", NullText, 200)]
    /\ clients = [c \in ClientIds |-> Client(<<"a", "@", "b">>)]
    /\ employees = [e \in EmployeeIds |-> Person]
    /\ contract_tasks =
          [t \in TaskIds |->
             CASE t = "t1" -> ContractTask("c1", 1, "Design", 200)
               [] t = "t2" -> ContractTask("c1", 2, "Build", 0)
               [] t = "t3" -> ContractTask("c2", 1, "Design", 100)]
    /\ invoices = <<>>
    /\ invoice_line_items = <<>>
    /\ clock = 0
    /\ inflight = <<>>
    /\ last = NoResponse
    /\ billed_before = NoSnapshot

(***************************************************************************)
(* utils.next_invoice_number                                               *)
(***************************************************************************)
\* the numeric suffix the loop of next_invoice_number reads off one number,
\* or Absent when the number does not end in "-<digits>"
NumericSuffix(inv_num) ==
    LET parts == rsplit(inv_num)
    IN IF Len(parts) > 1 /\ isdigit(parts[Len(parts)])
       THEN int(parts[Len(parts)])
       ELSE Absent

\* mutant: the numbering looks only at the invoices that are not soft-deleted
ActiveInvoiceRowsOfProject(project_id) ==
    {k \in 1..Len(invoices) :
        invoices[k].project_id = project_id /\ invoices[k].deleted_at = NullTime}

\* SELECT invoice_number FROM invoices WHERE project_id = %s
InvoiceRowsOfProject(project_id) ==
    {k \in 1..Len(invoices) : invoices[k].project_id = project_id}

\* the max_num loop over the fetched rows
MaxNum(rowset) ==
    LET RECURSIVE loop(_, _)
        loop(rows, max_num) ==
            IF rows = <<>> THEN max_num
            ELSE LET n == NumericSuffix(invoices[Head(rows)].invoice_number)
                 IN loop(Tail(rows),
                         IF n # Absent /\ n > max_num THEN n ELSE max_num)
    IN loop(Ascending(rowset), 0)

InvoicePrefix(project_id) ==
    IF project_id \in DOMAIN projects
    THEN IF projects[project_id].job_code # NullText
         THEN projects[project_id].job_code
         ELSE projects[project_id].project_number
    ELSE IdText(project_id)

next_invoice_number(project_id) ==
    FormatNumber(InvoicePrefix(project_id),
                 MaxNum(InvoiceRowsOfProject(project_id)) + 1)

(***************************************************************************)
(* Writing an invoice with its line items, as one transaction.  A plan is  *)
(* what a handler has computed from its reads: the invoice row, the line   *)
(* items and whether it re-points the project's current_invoice_id.        *)
(***************************************************************************)
InvoiceRow(number, project_id, contract_id, previous_invoice_id, type, total_due, now) ==
    [invoice_number |-> number, project_id |-> project_id,
     contract_id |-> contract_id, previous_invoice_id |-> previous_invoice_id,
     type |-> type, total_due |-> total_due, sent_status |-> "unsent",
     data_path |-> NullText, created_at |-> now, deleted_at |-> NullTime]

LineItem(name, quantity, unit_price, amount, previous_billing) ==
    [name |-> name, quantity |-> quantity, unit_price |-> unit_price,
     amount |-> amount, previous_billing |-> previous_billing]

Failure(op, status, target) ==
    [op |-> op, status |-> status, target |-> target,
     row |-> <<>>, items |-> <<>>, set_current |-> FALSE]

Plan(op, target, row, items, set_current) ==
    [op |-> op, status |-> 200, target |-> target,
     row |-> row, items |-> items, set_current |-> set_current]

\* the unique index on invoice numbers (soft-deleted rows included)
UniqueViolation(row) ==
    \E k \in 1..Len(invoices) :
        /\ invoices[k].project_id = row.project_id
        /\ invoices[k].invoice_number = row.invoice_number

\* INSERT INTO invoice_line_items ... (sort_order = i + 1) for one invoice
LineItemRows(inv_id, items) ==
    [k \in 1..Len(items) |->
        [invoice_id |-> inv_id, sort_order |-> k] @@ items[k]]

\* the INSERTs, the UPDATE of the project and db.commit(); a statement that
\* raises leaves the transaction uncommitted and the connection is closed
Commit(plan) ==
    IF plan.status # 200
    THEN /\ last' = Response(plan.op, plan.status, plan.target)
         /\ UNCHANGED db
    ELSE IF UniqueViolation(plan.row)
    THEN /\ last' = Response(plan.op, 500, plan.target)
         /\ UNCHANGED db
    ELSE LET inv_id == Len(invoices) + 1
         IN /\ invoices' = Append(invoices, plan.row)
            /\ invoice_line_items' =
                  invoice_line_items \o LineItemRows(inv_id, plan.items)
            /\ projects' =
                  IF plan.set_current
                  THEN [projects EXCEPT ![plan.row.project_id].current_invoice_id = inv_id]
                  ELSE projects
            /\ last' = Response(plan.op, 200, plan.target)
            /\ UNCHANGED <<contracts, contract_tasks, crm>>

(***************************************************************************)
(* POST /projects/{project_id}/invoices                                    *)
(***************************************************************************)
add_invoice_plan(project_id, invoice_number, total_due, now) ==
    IF projects[project_id].deleted_at # NullTime
    THEN Failure("add_invoice_to_project", 404, NullId)
    ELSE Plan("add_invoice_to_project", NullId,
              InvoiceRow(IF invoice_number = NullText
                         THEN next_invoice_number(project_id)
                         ELSE invoice_number,
                         project_id, NoContract, NullId, "list", total_due, now),
              <<>>, FALSE)

add_invoice_to_project(project_id, invoice_number, total_due) ==
    /\ Commit(add_invoice_plan(project_id, invoice_number, total_due, clock + 1))
    /\ clock' = IF last'.status = 200 THEN clock + 1 ELSE clock
    /\ billed_before' = NoSnapshot
    /\ UNCHANGED inflight

(***************************************************************************)
(* DELETE /invoices/{invoice_id}                                           *)
(***************************************************************************)
\* mutant: the lookup forgets the deleted_at filter
ExistingInvoice(invoice_id) == invoice_id \in 1..Len(invoices)

\* SELECT * FROM invoices WHERE id = %s AND deleted_at IS NULL
ActiveInvoice(invoice_id) ==
    /\ invoice_id \in 1..Len(invoices)
    /\ invoices[invoice_id].deleted_at = NullTime

\* mutant: the project keeps pointing at the deleted invoice
KeepCurrent(projs, project_id, invoice_id) == projs

\* UPDATE projects SET current_invoice_id = NULL
\* WHERE id = %s AND current_invoice_id = %s
ClearCurrent(projs, project_id, invoice_id) ==
    [p \in DOMAIN projs |->
        IF p = project_id /\ projs[p].current_invoice_id = invoice_id
        THEN [projs[p] EXCEPT !.current_invoice_id = NullId]
        ELSE projs[p]]

delete_invoice(invoice_id) ==
    IF ~ActiveInvoice(invoice_id)
    THEN /\ last' = Response("delete_invoice", 404, invoice_id)
         /\ billed_before' = NoSnapshot
         /\ UNCHANGED <<db, clock, inflight>>
    ELSE LET inv == invoices[invoice_id]
             now == clock + 1
         IN /\ invoices' = [invoices EXCEPT ![invoice_id].deleted_at = now]
            /\ projects' = ClearCurrent(projects, inv.project_id, invoice_id)
            /\ clock' = now
            /\ last' = Response("delete_invoice", 200, invoice_id)
            /\ billed_before' = NoSnapshot
            /\ UNCHANGED <<contracts, contract_tasks, invoice_line_items, crm, inflight>>

(***************************************************************************)
(* Billing read path: contracts._compute_task_billing and get_contract     *)
(***************************************************************************)
\* The read path takes the tables it queries as arguments (the db handle of
\* _compute_task_billing), so that one definition serves the tables as they
\* are before and after a request.

\* mutant: the join forgets the contract filter
ActiveLineItemsOfAnyContract(invs, items, contract_id) ==
    {k \in 1..Len(items) : invs[items[k].invoice_id].deleted_at = NullTime}

\* mutant: the join forgets the deleted_at filter
AllLineItemsOfContract(invs, items, contract_id) ==
    {k \in 1..Len(items) : invs[items[k].invoice_id].contract_id = contract_id}

\* the rows of invoice_line_items JOIN invoices
\* WHERE inv.contract_id = %s AND inv.deleted_at IS NULL
ActiveLineItemsOfContract(invs, items, contract_id) ==
    {k \in 1..Len(items) :
        /\ invs[items[k].invoice_id].contract_id = contract_id
        /\ invs[items[k].invoice_id].deleted_at = NullTime}

\* SUM(li.amount) over a set of line-item rows (COALESCE(..., 0))
SumAmount(items, rowset) ==
    LET order == Ascending(rowset)
    IN SeqSum([k \in 1..Len(order) |-> items[order[k]].amount])

\* ... GROUP BY li.name, as the dict billed_by_name
BilledByName(invs, items, contract_id) ==
    LET joined == ActiveLineItemsOfContract(invs, items, contract_id)
        names == {items[k].name : k \in joined}
    IN [n \in names |-> SumAmount(items, {k \in joined : items[k].name = n})]

\* amounts are integers here; billed / amount * 100 is the integer quotient
compute_task_billing(invs, items, contract_id, task) ==
    LET billed_by_name == BilledByName(invs, items, contract_id)
        billed == IF task.name \in DOMAIN billed_by_name
                  THEN billed_by_name[task.name] ELSE 0
    IN [billed_amount |-> billed,
        billed_percent |-> IF task.amount # 0
                           THEN (billed * 100) \div task.amount
                           ELSE 0] @@ task

\* SELECT * FROM contract_tasks WHERE contract_id = %s (ids of the rows)
TasksOfContract(contract_id) ==
    {t \in DOMAIN contract_tasks : contract_tasks[t].contract_id = contract_id}

\* GET /contracts/{id} over given invoice tables: the tasks of the response,
\* by task id
contract_read(invs, items, contract_id) ==
    IF contract_id \notin DOMAIN contracts
       \/ contracts[contract_id].deleted_at # NullTime
    THEN [status |-> 404, tasks |-> <<>>]
    ELSE [status |-> 200,
          tasks |-> [t \in TasksOfContract(contract_id) |->
                        compute_task_billing(invs, items, contract_id,
                                             contract_tasks[t])]]

\* GET /contracts/{id} in the current state
get_contract(contract_id) == contract_read(invoices, invoice_line_items, contract_id)

\* what _compute_task_billing reports for every task of every contract, over
\* given invoice tables
ReadBilling(invs, items) ==
    [t \in DOMAIN contract_tasks |->
        LET read == compute_task_billing(invs, items, contract_tasks[t].contract_id,
                                         contract_tasks[t])
        IN [billed_amount |-> read.billed_amount,
            billed_percent |-> read.billed_percent]]

\* ... in the current state
BilledState == ReadBilling(invoices, invoice_line_items)

(***************************************************************************)
(* POST /contracts/{contract_id}/invoices                                  *)
(***************************************************************************)
\* mutant: the newest active invoice of the project, whatever its contract
PrevInvoiceOfProject(project_id, contract_id) ==
    LET found == {k \in 1..Len(invoices) :
                    /\ invoices[k].project_id = project_id
                    /\ invoices[k].deleted_at = NullTime}
    IN IF found = {} THEN NullId
       ELSE CHOOSE k \in found :
               \A j \in found : invoices[j].created_at <= invoices[k].created_at

\* SELECT id FROM invoices WHERE project_id = %s AND contract_id = %s
\* AND deleted_at IS NULL ORDER BY created_at DESC LIMIT 1
PrevInvoice(project_id, contract_id) ==
    LET found == {k \in 1..Len(invoices) :
                    /\ invoices[k].project_id = project_id
                    /\ invoices[k].contract_id = contract_id
                    /\ invoices[k].deleted_at = NullTime}
    IN IF found = {} THEN NullId
       ELSE CHOOSE k \in found :
               \A j \in found : invoices[j].created_at <= invoices[k].created_at

\* mutant: the task is looked up by its id alone
TaskFoundInAnyContract(task_id, contract_id) ==
    task_id \in DOMAIN contract_tasks

\* SELECT * FROM contract_tasks WHERE id = %s AND contract_id = %s
TaskFound(task_id, contract_id) ==
    /\ task_id \in DOMAIN contract_tasks
    /\ contract_tasks[task_id].contract_id = contract_id

\* mutant: the line item bills the whole fee whatever the percentage
TaskLineItemFullFee(contract_id, task_spec) ==
    LET task == contract_tasks[task_spec.task_id]
    IN LineItem(task.name, task_spec.percent_this_invoice, task.amount,
                task.amount, 0)

\* one pass of the loop over data.tasks
TaskLineItem(contract_id, task_spec) ==
    LET task == contract_tasks[task_spec.task_id]
        current_billing == (task.amount * task_spec.percent_this_invoice) \div 100
        previous_billing ==
            SumAmount(invoice_line_items,
                      {k \in ActiveLineItemsOfContract(invoices, invoice_line_items,
                                                       contract_id) :
                          invoice_line_items[k].name = task.name})
    IN LineItem(task.name, task_spec.percent_this_invoice, task.amount,
                current_billing, previous_billing)

invoice_from_contract_plan(contract_id, tasks, invoice_number, now) ==
    IF contract_id \notin DOMAIN contracts
       \/ contracts[contract_id].deleted_at # NullTime
    THEN Failure("create_invoice_from_contract", 404, NullId)
    ELSE IF \E k \in 1..Len(tasks) : ~TaskFound(tasks[k].task_id, contract_id)
    THEN Failure("create_invoice_from_contract", 404, NullId)
    ELSE LET project_id == contracts[contract_id].project_id
             line_items == [k \in 1..Len(tasks) |-> TaskLineItem(contract_id, tasks[k])]
             total_due == SeqSum([k \in 1..Len(tasks) |-> line_items[k].amount])
         IN Plan("create_invoice_from_contract", NullId,
                 InvoiceRow(IF invoice_number = NullText
                            THEN next_invoice_number(project_id)
                            ELSE invoice_number,
                            project_id, contract_id,
                            PrevInvoice(project_id, contract_id),
                            "task", total_due, now),
                 line_items, TRUE)

create_invoice_from_contract(contract_id, tasks, invoice_number) ==
    /\ Commit(invoice_from_contract_plan(contract_id, tasks, invoice_number, clock + 1))
    /\ clock' = IF last'.status = 200 THEN clock + 1 ELSE clock
    /\ billed_before' = IF last'.status = 200 THEN BilledState ELSE NoSnapshot
    /\ UNCHANGED inflight

(***************************************************************************)
(* POST /contracts/{contract_id}/invoices with the sheet renderer.  The    *)
(* action above is the request with skip_sheet set; this one takes what    *)
(* create_invoice_sheet does as an input: "skipped" (skip_sheet), "created"*)
(* (it returns the sheet's URL), "no_credentials" (FileNotFoundError) or   *)
(* "error" (any other exception).                                          *)
(***************************************************************************)
SheetOutcomes == {"skipped", "created", "no_credentials", "error"}

SheetFailures == {"no_credentials", "error"}

SheetUrl == <<"u", "r", "l">>

\* mutant: an exception of the renderer leaves the handler
RenderSheetUncaught(sheet) ==
    [status |-> IF sheet \in SheetFailures THEN 500 ELSE 200,
     data_path |-> IF sheet = "created" THEN SheetUrl ELSE NullText,
     warning |-> FALSE]

\* the section after the first db.commit(): the status of the response, the
\* data_path the invoice row ends with, and whether the response carries
\* _warning (no data_path and a sheet_error)
RenderSheet(sheet) ==
    [status |-> 200,
     data_path |-> IF sheet = "created" THEN SheetUrl ELSE NullText,
     warning |-> sheet \in SheetFailures]

create_invoice_from_contract_sheet(contract_id, tasks, invoice_number, sheet) ==
    LET plan == invoice_from_contract_plan(contract_id, tasks, invoice_number, clock + 1)
        rendered == RenderSheet(sheet)
    IN IF plan.status # 200 \/ UniqueViolation(plan.row)
       THEN create_invoice_from_contract(contract_id, tasks, invoice_number)
       ELSE /\ invoices' = Append(invoices, [plan.row EXCEPT !.data_path = rendered.data_path])
            /\ invoice_line_items' =
                  invoice_line_items \o LineItemRows(Len(invoices) + 1, plan.items)
            /\ projects' =
                  [projects EXCEPT ![plan.row.project_id].current_invoice_id =
                                      Len(invoices) + 1]
            /\ last' = [Response(plan.op, rendered.status, plan.target)
                          EXCEPT !.warning = rendered.warning]
            /\ clock' = clock + 1
            /\ billed_before' = BilledState
            /\ UNCHANGED <<contracts, contract_tasks, crm, inflight>>

(***************************************************************************)
(* POST /invoices/{invoice_id}/create-next                                 *)
(***************************************************************************)
\* SELECT * FROM invoice_line_items WHERE invoice_id = %s ORDER BY sort_order
\* (row indexes, in sort_order)
LineItemsOf(invoice_id) ==
    LET mine == {k \in 1..Len(invoice_line_items) : invoice_line_items[k].invoice_id = invoice_id}
        RECURSIVE sorted(_)
        sorted(S) ==
            IF S = {} THEN <<>>
            ELSE LET m == CHOOSE x \in S :
                             \A y \in S :
                                invoice_line_items[x].sort_order
                                   <= invoice_line_items[y].sort_order
                 IN <<m>> \o sorted(S \ {m})
    IN sorted(mine)

\* mutant: the carried-forward line item copies previous_billing as it was
NextLineItemNoCarry(li) ==
    LineItem(li.name, 0, li.unit_price, 0, li.previous_billing)

\* the carried-forward line item built from one line item of the current invoice
NextLineItem(li) ==
    LineItem(li.name, 0, li.unit_price, 0, li.previous_billing + li.amount)

\* mutant: the sent check is missing
NeverRefused(invoice) == FALSE

\* if invoice["sent_status"] != "sent": raise HTTPException(400)
NotSent(invoice) == invoice.sent_status # "sent"

\* mutant: the new invoice copies the predecessor of the current invoice
NextInvoiceRowCopiedLink(invoice_id, number, now) ==
    InvoiceRow(number, invoices[invoice_id].project_id,
               invoices[invoice_id].contract_id,
               invoices[invoice_id].previous_invoice_id, "task", 0, now)

\* the INSERT INTO invoices of create-next
NextInvoiceRow(invoice_id, number, now) ==
    InvoiceRow(number, invoices[invoice_id].project_id,
               invoices[invoice_id].contract_id, invoice_id, "task", 0, now)

create_next_plan(invoice_id, now) ==
    IF ~ActiveInvoice(invoice_id)
    THEN Failure("create_next_invoice", 404, invoice_id)
    ELSE IF NotSent(invoices[invoice_id])
    THEN Failure("create_next_invoice", 400, invoice_id)
    ELSE IF LineItemsOf(invoice_id) = <<>>
    THEN Failure("create_next_invoice", 400, invoice_id)
    ELSE LET invoice == invoices[invoice_id]
             line_items == LineItemsOf(invoice_id)
             new_line_items ==
                 [k \in 1..Len(line_items) |->
                     NextLineItem(invoice_line_items[line_items[k]])]
         IN Plan("create_next_invoice", invoice_id,
                 NextInvoiceRow(invoice_id,
                                next_invoice_number(invoice.project_id), now),
                 new_line_items, TRUE)

create_next_invoice(invoice_id) ==
    /\ Commit(create_next_plan(invoice_id, clock + 1))
    /\ clock' = IF last'.status = 200 THEN clock + 1 ELSE clock
    /\ billed_before' = NoSnapshot
    /\ UNCHANGED inflight

(***************************************************************************)
(* PATCH /invoices/{invoice_id}                                            *)
(***************************************************************************)
\* dict.get(key, default) on one line-item dict of the request
Get(value, default) == IF value = Absent THEN default ELSE value

\* the UPDATE of the i-th old line item from the i-th dict of the request
EditedLineItem(old_li, new_li) ==
    LET quantity == Get(new_li.quantity, old_li.quantity)
        unit_price == Get(new_li.unit_price, old_li.unit_price)
    IN [old_li EXCEPT !.quantity = quantity,
                      !.unit_price = unit_price,
                      !.amount = (unit_price * quantity) \div 100,
                      !.previous_billing =
                          Get(new_li.previous_billing, old_li.previous_billing)]

update_invoice(invoice_id, data) ==
    IF ~ActiveInvoice(invoice_id)
    THEN /\ last' = Response("update_invoice", 404, invoice_id)
         /\ billed_before' = NoSnapshot
         /\ UNCHANGED <<db, clock, inflight>>
    ELSE LET old_items == LineItemsOf(invoice_id)
             \* positions i of old_items with i < len(new_line_items)
             edited == IF data.has_line_items
                       THEN {i \in 1..Len(old_items) : i <= Len(data.line_items)}
                       ELSE {}
             new_items ==
                 [k \in 1..Len(invoice_line_items) |->
                    IF \E i \in edited : old_items[i] = k
                    THEN LET i == CHOOSE i \in edited : old_items[i] = k
                         IN EditedLineItem(invoice_line_items[k], data.line_items[i])
                    ELSE invoice_line_items[k]]
             order == Ascending(edited)
             total == SeqSum([j \in 1..Len(order) |->
                                 new_items[old_items[order[j]]].amount])
             total_due == IF data.total_due # Absent THEN data.total_due
                          ELSE IF data.has_line_items THEN total
                          ELSE invoices[invoice_id].total_due
             sent_status == IF data.sent_status # NoStatus THEN data.sent_status
                            ELSE invoices[invoice_id].sent_status
         IN /\ invoice_line_items' = new_items
            /\ invoices' = [invoices EXCEPT ![invoice_id].total_due = total_due,
                                            ![invoice_id].sent_status = sent_status]
            /\ last' = Response("update_invoice", 200, invoice_id)
            /\ billed_before' = NoSnapshot
            /\ UNCHANGED <<projects, contracts, contract_tasks, crm, clock, inflight>>

(***************************************************************************)
(* Soft delete of the other entities: DELETE /contracts/{id},              *)
(* /projects/{id}, /proposals/{id}, /clients/{id}, /employees/{id}         *)
(***************************************************************************)
\* mutant: a row is found whether or not it is soft-deleted
AnyRow(table, id) == id \in DOMAIN table

\* SELECT * FROM <table> WHERE id = %s AND deleted_at IS NULL
ActiveRow(table, id) ==
    /\ id \in DOMAIN table
    /\ table[id].deleted_at = NullTime

\* the response of a handler whose path names no invoice
Answer(op, status) == Response(op, status, NullId)

delete_contract(contract_id) ==
    IF ~ActiveRow(contracts, contract_id)
    THEN /\ last' = Answer("delete_contract", 404)
         /\ billed_before' = NoSnapshot
         /\ UNCHANGED <<db, clock, inflight>>
    ELSE /\ contracts' = [contracts EXCEPT ![contract_id].deleted_at = clock + 1]
         /\ clock' = clock + 1
         /\ last' = Answer("delete_contract", 200)
         /\ billed_before' = NoSnapshot
         /\ UNCHANGED <<projects, contract_tasks, invoices, invoice_line_items,
                        crm, inflight>>

\* UPDATE <table> SET deleted_at = now WHERE project_id = %s AND deleted_at IS NULL
\* mutant: the cascade forgets the project_id filter
CascadeDeleteEverywhere(table, project_id, now) ==
    [id \in DOMAIN table |->
        IF table[id].deleted_at = NullTime
        THEN [table[id] EXCEPT !.deleted_at = now]
        ELSE table[id]]

CascadeDelete(table, project_id, now) ==
    [id \in DOMAIN table |->
        IF table[id].project_id = project_id /\ table[id].deleted_at = NullTime
        THEN [table[id] EXCEPT !.deleted_at = now]
        ELSE table[id]]

delete_project(project_id, cascade) ==
    IF ~ActiveRow(projects, project_id)
    THEN /\ last' = Answer("delete_project", 404)
         /\ billed_before' = NoSnapshot
         /\ UNCHANGED <<db, clock, inflight>>
    ELSE LET now == clock + 1
         IN /\ contracts' = IF cascade THEN CascadeDelete(contracts, project_id, now)
                            ELSE contracts
            /\ invoices' = IF cascade THEN CascadeDelete(invoices, project_id, now)
                           ELSE invoices
            /\ proposals' = IF cascade THEN CascadeDelete(proposals, project_id, now)
                            ELSE proposals
            /\ projects' = [projects EXCEPT ![project_id].deleted_at = now]
            /\ clock' = now
            /\ last' = Answer("delete_project", 200)
            /\ billed_before' = NoSnapshot
            /\ UNCHANGED <<contract_tasks, invoice_line_items, proposal_tasks,
                           clients, employees, inflight>>

delete_proposal(proposal_id) ==
    IF ~ActiveRow(proposals, proposal_id)
    THEN /\ last' = Answer("delete_proposal", 404)
         /\ billed_before' = NoSnapshot
         /\ UNCHANGED <<db, clock, inflight>>
    ELSE /\ proposals' = [proposals EXCEPT ![proposal_id].deleted_at = clock + 1]
         /\ clock' = clock + 1
         /\ last' = Answer("delete_proposal", 200)
         /\ billed_before' = NoSnapshot
         /\ UNCHANGED <<projects, contracts, contract_tasks, invoices,
                        invoice_line_items, proposal_tasks, clients, employees,
                        inflight>>

delete_client(client_id) ==
    IF ~ActiveRow(clients, client_id)
    THEN /\ last' = Answer("delete_client", 404)
         /\ billed_before' = NoSnapshot
         /\ UNCHANGED <<db, clock, inflight>>
    ELSE /\ clients' = [clients EXCEPT ![client_id].deleted_at = clock + 1]
         /\ clock' = clock + 1
         /\ last' = Answer("delete_client", 200)
         /\ billed_before' = NoSnapshot
         /\ UNCHANGED <<projects, contracts, contract_tasks, invoices,
                        invoice_line_items, proposals, proposal_tasks, employees,
                        inflight>>

delete_employee(employee_id) ==
    IF ~ActiveRow(employees, employee_id)
    THEN /\ last' = Answer("delete_employee", 404)
         /\ billed_before' = NoSnapshot
         /\ UNCHANGED <<db, clock, inflight>>
    ELSE /\ employees' = [employees EXCEPT ![employee_id].deleted_at = clock + 1]
         /\ clock' = clock + 1
         /\ last' = Answer("delete_employee", 200)
         /\ billed_before' = NoSnapshot
         /\ UNCHANGED <<projects, contracts, contract_tasks, invoices,
                        invoice_line_items, proposals, proposal_tasks, clients,
                        inflight>>

(***************************************************************************)
(* Reads.  Each takes the table it queries as an argument (the db handle)  *)
(* and answers 404 or 200 with the ids of the rows it returns.             *)
(***************************************************************************)
NotFound == [status |-> 404, ids |-> {}]

Found(ids) == [status |-> 200, ids |-> ids]

\* GET /<entity>/{id} of clients, employees, proposals, contracts
get_by_id(table, id) ==
    IF ActiveRow(table, id) THEN Found({id}) ELSE NotFound

\* GET /<entity> of clients, employees, proposals: WHERE deleted_at IS NULL
list_rows(table) == {id \in DOMAIN table : ActiveRow(table, id)}

\* GET /invoices/{invoice_id}
get_invoice(invs, invoice_id) ==
    IF invoice_id \in 1..Len(invs) /\ ActiveRow(invs, invoice_id)
    THEN Found({invoice_id}) ELSE NotFound

\* GET /invoices/by-number/{invoice_number}: fetchone() of the matching rows
get_invoice_by_number(invs, invoice_number) ==
    LET rows == {k \in 1..Len(invs) :
                    /\ invs[k].invoice_number = invoice_number
                    /\ ActiveRow(invs, k)}
    IN IF rows = {} THEN NotFound
       ELSE Found({CHOOSE k \in rows : \A j \in rows : k <= j})

\* _get_contracts_for_project, _get_invoices_for_project,
\* _get_proposals_for_project: WHERE project_id = %s AND deleted_at IS NULL
rows_for_project(table, project_id) ==
    {id \in DOMAIN table :
        table[id].project_id = project_id /\ ActiveRow(table, id)}

\* GET /projects/{project_id} with the embedded lists
get_project(projs, cons, invs, props, project_id) ==
    IF ~ActiveRow(projs, project_id)
    THEN [status |-> 404, contracts |-> {}, invoices |-> {}, proposals |-> {}]
    ELSE [status |-> 200,
          contracts |-> rows_for_project(cons, project_id),
          invoices |-> rows_for_project(invs, project_id),
          proposals |-> rows_for_project(props, project_id)]

\* the rows of the view v_project_summary: the projects that are not
\* soft-deleted
v_project_summary(projs) == {p \in DOMAIN projs : projs[p].deleted_at = NullTime}

\* GET /projects: one summary with embedded lists per row of the view
list_projects(projs, cons, invs, props) ==
    [p \in v_project_summary(projs) |->
        [contracts |-> rows_for_project(cons, p),
         invoices |-> rows_for_project(invs, p),
         proposals |-> rows_for_project(props, p)]]

(***************************************************************************)
(* Contracts and their tasks: POST /contracts, PATCH /contracts/{id},      *)
(* POST, PATCH and DELETE of /contracts/{id}/tasks, and                    *)
(* POST /proposals/{id}/promote.  Rows of contracts and contract_tasks are *)
(* keyed by generated ids; a new row takes the first id of the pool that   *)
(* no row has.                                                             *)
(***************************************************************************)
MaxContracts == 3

MaxTasks == 5

ContractPool == <<"c1", "c2", "c3", "c4", "c5", "c6">>

TaskPool == <<"t1", "t2", "t3", "t4", "t5", "t6", "t7", "t8", "t9", "t10">>

\* generate_id: the ids of the pool that no row of the table has, in order
Unused(pool, table) == SelectSeq(pool, LAMBDA id : id \notin DOMAIN table)

\* MAX(...) of a SELECT
Max(S) == CHOOSE x \in S : \A y \in S : y <= x

\* one entry of the tasks list of a request body
TaskInput(name, amount) == [name |-> name, amount |-> amount]

\* body of POST /contracts; tasks = <<>> with has_tasks = FALSE is tasks: null
ContractCreate(total_amount, has_tasks, tasks) ==
    [total_amount |-> total_amount, has_tasks |-> has_tasks, tasks |-> tasks]

\* body of PATCH /contracts/{id}
ContractUpdate(has_tasks, tasks) == [has_tasks |-> has_tasks, tasks |-> tasks]

\* the table without the rows of a set of ids
Without(table, ids) == [id \in DOMAIN table \ ids |-> table[id]]

\* INSERT INTO contract_tasks, one row per entry of rows, under new ids
InsertTasks(table, rows) ==
    LET ids == SubSeq(Unused(TaskPool, table), 1, Len(rows))
        at(id) == CHOOSE k \in 1..Len(rows) : ids[k] = id
    IN table @@ [id \in {ids[k] : k \in 1..Len(rows)} |-> rows[at(id)]]

\* the rows of an inline tasks list: sort_order = i + 1
InlineTasks(contract_id, tasks) ==
    [k \in 1..Len(tasks) |->
        ContractTask(contract_id, k, tasks[k].name, tasks[k].amount)]

\* _update_contract_total: the contracts table after it ran
update_contract_total(cons, tasks_table, contract_id) ==
    LET RECURSIVE total(_)
        total(S) ==
            IF S = {} THEN 0
            ELSE LET t == CHOOSE t \in S : TRUE
                 IN tasks_table[t].amount + total(S \ {t})
    IN [cons EXCEPT ![contract_id].total_amount =
           total({t \in DOMAIN tasks_table :
                     tasks_table[t].contract_id = contract_id})]

\* total = data.total_amount; if data.tasks: total = sum of the amounts
CreateTotal(data) ==
    IF data.has_tasks /\ data.tasks # <<>>
    THEN SeqSum([k \in 1..Len(data.tasks) |-> data.tasks[k].amount])
    ELSE data.total_amount

create_contract(project_id, data) ==
    IF ~ActiveRow(projects, project_id)
    THEN /\ last' = Answer("create_contract", 404)
         /\ billed_before' = NoSnapshot
         /\ UNCHANGED <<db, clock, inflight>>
    ELSE LET contract_id == Unused(ContractPool, contracts)[1]
         IN /\ contracts' = contracts @@
                  (contract_id :> Contract(project_id, CreateTotal(data), clock + 1))
            /\ contract_tasks' =
                  IF data.has_tasks
                  THEN InsertTasks(contract_tasks, InlineTasks(contract_id, data.tasks))
                  ELSE contract_tasks
            /\ clock' = clock + 1
            /\ last' = Answer("create_contract", 201)
            /\ billed_before' = NoSnapshot
            /\ UNCHANGED <<projects, invoices, invoice_line_items, crm, inflight>>

update_contract(contract_id, data) ==
    IF ~ActiveRow(contracts, contract_id)
    THEN /\ last' = Answer("update_contract", 404)
         /\ billed_before' = NoSnapshot
         /\ UNCHANGED <<db, clock, inflight>>
    ELSE /\ IF data.has_tasks
            THEN LET replaced ==
                        InsertTasks(Without(contract_tasks, TasksOfContract(contract_id)),
                                    InlineTasks(contract_id, data.tasks))
                 IN /\ contract_tasks' = replaced
                    /\ contracts' = update_contract_total(contracts, replaced, contract_id)
            ELSE UNCHANGED <<contracts, contract_tasks>>
         /\ last' = Answer("update_contract", 200)
         /\ billed_before' = NoSnapshot
         /\ UNCHANGED <<projects, invoices, invoice_line_items, crm, clock, inflight>>

add_contract_task(contract_id, data) ==
    IF ~ActiveRow(contracts, contract_id)
    THEN /\ last' = Answer("add_contract_task", 404)
         /\ billed_before' = NoSnapshot
         /\ UNCHANGED <<db, clock, inflight>>
    ELSE LET max_order == Max({0} \cup {contract_tasks[t].sort_order :
                                           t \in TasksOfContract(contract_id)})
             added == InsertTasks(contract_tasks,
                                  <<ContractTask(contract_id, max_order + 1,
                                                 data.name, data.amount)>>)
         IN /\ contract_tasks' = added
            /\ contracts' = update_contract_total(contracts, added, contract_id)
            /\ last' = Answer("add_contract_task", 200)
            /\ billed_before' = NoSnapshot
            /\ UNCHANGED <<projects, invoices, invoice_line_items, crm, clock, inflight>>

\* amount = Absent is a body without amount; the body then names nothing and
\* the handler returns before any write
update_contract_task(contract_id, task_id, amount) ==
    IF ~TaskFound(task_id, contract_id)
    THEN /\ last' = Answer("update_contract_task", 404)
         /\ billed_before' = NoSnapshot
         /\ UNCHANGED <<db, clock, inflight>>
    ELSE IF amount = Absent
    THEN /\ last' = Answer("update_contract_task", 200)
         /\ billed_before' = NoSnapshot
         /\ UNCHANGED <<db, clock, inflight>>
    ELSE LET updated == [contract_tasks EXCEPT ![task_id].amount = amount]
         IN /\ contract_tasks' = updated
            /\ contracts' = update_contract_total(contracts, updated, contract_id)
            /\ last' = Answer("update_contract_task", 200)
            /\ billed_before' = NoSnapshot
            /\ UNCHANGED <<projects, invoices, invoice_line_items, crm, clock, inflight>>

delete_contract_task(contract_id, task_id) ==
    IF ~TaskFound(task_id, contract_id)
    THEN /\ last' = Answer("delete_contract_task", 404)
         /\ billed_before' = NoSnapshot
         /\ UNCHANGED <<db, clock, inflight>>
    ELSE LET remaining == Without(contract_tasks, {task_id})
         IN /\ contract_tasks' = remaining
            /\ contracts' = update_contract_total(contracts, remaining, contract_id)
            /\ last' = Answer("delete_contract_task", 200)
            /\ billed_before' = NoSnapshot
            /\ UNCHANGED <<projects, invoices, invoice_line_items, crm, clock, inflight>>

\* PATCH /proposals/{id} with total_fee in the body
update_proposal(proposal_id, total_fee) ==
    IF ~ActiveRow(proposals, proposal_id)
    THEN /\ last' = Answer("update_proposal", 404)
         /\ billed_before' = NoSnapshot
         /\ UNCHANGED <<db, clock, inflight>>
    ELSE /\ proposals' = [proposals EXCEPT ![proposal_id].total_fee = total_fee]
         /\ last' = Answer("update_proposal", 200)
         /\ billed_before' = NoSnapshot
         /\ UNCHANGED <<projects, contracts, contract_tasks, invoices,
                        invoice_line_items, proposal_tasks, clients, employees,
                        clock, inflight>>

\* SELECT * FROM proposal_tasks WHERE proposal_id = %s ORDER BY sort_order
TasksOfProposal(proposal_id) ==
    LET mine == {t \in DOMAIN proposal_tasks :
                    proposal_tasks[t].proposal_id = proposal_id}
        RECURSIVE sorted(_)
        sorted(S) ==
            IF S = {} THEN <<>>
            ELSE LET first == CHOOSE t \in S :
                                 \A u \in S : proposal_tasks[t].sort_order
                                                 <= proposal_tasks[u].sort_order
                 IN <<first>> \o sorted(S \ {first})
    IN sorted(mine)

\* mutant: the copy numbers the tasks anew and drops the description
PromotedTaskRenumbered(contract_id, task, position) ==
    ContractTask(contract_id, position, task.name, task.amount)
       @@ [description |-> NullText, billed_amount |-> 0, billed_percent |-> 0]

\* INSERT INTO contract_tasks (... billed_amount, billed_percent ...) VALUES
\* (... 0, 0 ...) for one proposal task, the position-th in sort_order
PromotedTask(contract_id, task, position) ==
    ContractTask(contract_id, task.sort_order, task.name, task.amount)
       @@ [description |-> task.description, billed_amount |-> 0, billed_percent |-> 0]

promote_to_contract(proposal_id) ==
    IF ~ActiveRow(proposals, proposal_id)
    THEN /\ last' = Answer("promote_to_contract", 404)
         /\ billed_before' = NoSnapshot
         /\ UNCHANGED <<db, clock, inflight>>
    ELSE LET proposal == proposals[proposal_id]
             contract_id == Unused(ContractPool, contracts)[1]
             tasks == TasksOfProposal(proposal_id)
         IN /\ contracts' = contracts @@
                  (contract_id :> Contract(proposal.project_id, proposal.total_fee,
                                           clock + 1))
            /\ contract_tasks' =
                  InsertTasks(contract_tasks,
                              [k \in 1..Len(tasks) |->
                                  PromotedTask(contract_id, proposal_tasks[tasks[k]], k)])
            /\ proposals' = [proposals EXCEPT ![proposal_id].status = "accepted"]
            /\ projects' = [projects EXCEPT ![proposal.project_id].status = "contract"]
            /\ clock' = clock + 1
            /\ last' = Answer("promote_to_contract", 200)
            /\ billed_before' = NoSnapshot
            /\ UNCHANGED <<invoices, invoice_line_items, proposal_tasks,
                           clients, employees, inflight>>

(***************************************************************************)
(* Documents of an invoice: POST /invoices/{id}/generate-sheet,            *)
(* POST /invoices/{id}/export-pdf and POST /invoices/{id}/send.  What the  *)
(* external calls do is an input: the renderer as for invoice creation,    *)
(* the PDF export with its upload and the notifier each succeed or raise.  *)
(* pdf_path and sent_at are columns of a row once one of these handlers    *)
(* has written them.                                                       *)
(***************************************************************************)
PdfUrl == <<"p", "d", "f">>

\* mutant: the UPDATE has no WHERE clause
SetColumnsOfAll(invs, invoice_id, cols) ==
    [k \in 1..Len(invs) |-> cols @@ invs[k]]

\* UPDATE invoices SET <cols> WHERE id = %s
SetColumns(invs, invoice_id, cols) ==
    [invs EXCEPT ![invoice_id] = cols @@ invs[invoice_id]]

\* ... FROM projects p LEFT JOIN clients c ON p.client_id = c.id: the
\* client's accounting_email, NullText without a client row
client_email(project_id) ==
    LET client_id == projects[project_id].client_id
    IN IF client_id \in DOMAIN clients
       THEN clients[client_id].accounting_email ELSE NullText

\* a handler that answers without a write
Refuse(op, status, invoice_id) ==
    /\ last' = Response(op, status, invoice_id)
    /\ billed_before' = NoSnapshot
    /\ UNCHANGED <<db, clock, inflight>>

generate_sheet_for_invoice(invoice_id, force, sheet) ==
    IF ~ActiveInvoice(invoice_id)
    THEN Refuse("generate_sheet_for_invoice", 404, invoice_id)
    ELSE IF invoices[invoice_id].data_path # NullText /\ ~force
    THEN Refuse("generate_sheet_for_invoice", 400, invoice_id)
    ELSE IF invoices[invoice_id].project_id \notin DOMAIN projects
    THEN Refuse("generate_sheet_for_invoice", 404, invoice_id)
    ELSE IF sheet = "no_credentials"
    THEN Refuse("generate_sheet_for_invoice", 400, invoice_id)
    ELSE IF sheet = "error"
    THEN Refuse("generate_sheet_for_invoice", 500, invoice_id)
    ELSE /\ invoices' = SetColumns(invoices, invoice_id, [data_path |-> SheetUrl])
         /\ last' = Response("generate_sheet_for_invoice", 200, invoice_id)
         /\ billed_before' = NoSnapshot
         /\ UNCHANGED <<projects, contracts, contract_tasks, invoice_line_items,
                        crm, clock, inflight>>

export_invoice_pdf(invoice_id, export_ok) ==
    IF ~ActiveInvoice(invoice_id)
    THEN Refuse("export_invoice_pdf", 404, invoice_id)
    ELSE IF invoices[invoice_id].data_path = NullText
    THEN Refuse("export_invoice_pdf", 400, invoice_id)
    ELSE IF ~export_ok
    THEN Refuse("export_invoice_pdf", 500, invoice_id)
    ELSE /\ invoices' = SetColumns(invoices, invoice_id, [pdf_path |-> PdfUrl])
         /\ last' = Response("export_invoice_pdf", 200, invoice_id)
         /\ billed_before' = NoSnapshot
         /\ UNCHANGED <<projects, contracts, contract_tasks, invoice_line_items,
                        crm, clock, inflight>>

\* mutant: the status is written before the notifier is called, in its own
\* transaction
SentBeforeNotifier(notify_ok) == TRUE

\* whether the UPDATE that marks the invoice sent is reached: it follows
\* send_invoice_email, which raises when the notifier fails
SentAfterNotifier(notify_ok) == notify_ok

send_invoice(invoice_id, export_ok, notify_ok) ==
    IF ~ActiveInvoice(invoice_id)
    THEN Refuse("send_invoice", 404, invoice_id)
    ELSE IF invoices[invoice_id].data_path = NullText
    THEN Refuse("send_invoice", 400, invoice_id)
    ELSE IF invoices[invoice_id].project_id \notin DOMAIN projects
    THEN Refuse("send_invoice", 404, invoice_id)
    ELSE IF ~export_ok
    THEN Refuse("send_invoice", 500, invoice_id)
    ELSE IF client_email(invoices[invoice_id].project_id) = NullText
    THEN Refuse("send_invoice", 400, invoice_id)
    ELSE LET now == clock + 1
         IN /\ invoices' =
                  IF SentAfterNotifier(notify_ok)
                  THEN SetColumns(invoices, invoice_id,
                                  [sent_status |-> "sent", sent_at |-> now,
                                   pdf_path |-> PdfUrl])
                  ELSE invoices
            /\ clock' = IF SentAfterNotifier(notify_ok) THEN now ELSE clock
            /\ last' = Response("send_invoice", IF notify_ok THEN 200 ELSE 500,
                                invoice_id)
            /\ billed_before' = NoSnapshot
            /\ UNCHANGED <<projects, contracts, contract_tasks, invoice_line_items,
                           crm, inflight>>

(***************************************************************************)
(* POST /flows/payments (flows.submit_payment)                             *)
(***************************************************************************)
\* mutant: the lookup leaves out "AND deleted_at IS NULL"
InvoicesNumberedAnyState(number) ==
    {k \in 1..Len(invoices) : invoices[k].invoice_number = number}

\* SELECT id FROM invoices WHERE invoice_number = %s AND deleted_at IS NULL
InvoicesNumbered(number) ==
    {k \in 1..Len(invoices) :
        invoices[k].invoice_number = number /\ invoices[k].deleted_at = NullTime}

\* fetchone() without ORDER BY: any one of the rows that match
submit_payment(invoice) ==
    IF InvoicesNumbered(invoice) = {}
    THEN Refuse("submit_payment", 404, NullId)
    ELSE \E inv_row \in InvoicesNumbered(invoice) :
            LET now == clock + 1
            IN /\ invoices' = SetColumns(invoices, inv_row,
                                         [paid_status |-> "paid", paid_at |-> now,
                                          updated_at |-> now])
               /\ clock' = now
               /\ last' = Response("submit_payment", 200, inv_row)
               /\ billed_before' = NoSnapshot
               /\ UNCHANGED <<projects, contracts, contract_tasks,
                              invoice_line_items, crm, inflight>>

(***************************************************************************)
(* utils.next_project_number and POST /projects (projects.create_project)  *)
(***************************************************************************)
\* datetime.now().strftime("%y"): the requests of one calendar year
yr == <<"2", "6">>

\* s.split("-", 1): s is cut at its first "-", when it has one
split(s) ==
    IF \A k \in 1..Len(s) : s[k] # "-" THEN <<s>>
    ELSE LET first == CHOOSE k \in 1..Len(s) :
                         s[k] = "-" /\ \A j \in 1..(k - 1) : s[j] # "-"
         IN <<SubSeq(s, 1, first - 1), SubSeq(s, first + 1, Len(s))>>

\* project_number LIKE prefix || '%'
Like(s, prefix) ==
    Len(s) >= Len(prefix) /\ SubSeq(s, 1, Len(prefix)) = prefix

RECURSIVE TextLess(_, _)
\* a < b as ORDER BY project_number compares two texts: character by
\* character ("-" before the digits), a proper prefix first
TextLess(a, b) ==
    IF Len(b) = 0 THEN FALSE
    ELSE IF Len(a) = 0 THEN TRUE
    ELSE IF a[1] # b[1]
    THEN (IF a[1] = "-" THEN 0 ELSE DigitVal(a[1]) + 1)
            < (IF b[1] = "-" THEN 0 ELSE DigitVal(b[1]) + 1)
    ELSE TextLess(Tail(a), Tail(b))

\* f"{seq:03d}"
ZeroPad3(seq) ==
    LET digits == str(seq)
    IN IF Len(digits) >= 3 THEN digits
       ELSE IF Len(digits) = 2 THEN <<"0">> \o digits
       ELSE <<"0", "0">> \o digits

\* SELECT project_number FROM projects WHERE project_number LIKE %s
\* ORDER BY project_number DESC LIMIT 1, over a given projects table: the
\* numbers that match and the first of them in descending order
NumbersOfYear(table) ==
    {table[p].project_number : p \in
        {q \in DOMAIN table : /\ table[q].project_number # NullText
                              /\ Like(table[q].project_number, yr \o <<"-">>)}}

LastNumber(table) ==
    CHOOSE n \in NumbersOfYear(table) :
        \A m \in NumbersOfYear(table) : ~TextLess(n, m)

\* Absent when int() raises ValueError on what follows the first "-"
next_project_number(table) ==
    IF NumbersOfYear(table) = {}
    THEN yr \o <<"-">> \o ZeroPad3(1)
    ELSE LET rest == split(LastNumber(table))[2]
         IN IF isdigit(rest)
            THEN yr \o <<"-">> \o ZeroPad3(int(rest) + 1)
            ELSE <<>>

\* generate_id("proj-"): an id no row and no request in flight has
NewProjectId ==
    Head(SelectSeq(<<"P3", "P4", "P5", "P6">>,
                   LAMBDA id : /\ id \notin DOMAIN projects
                               /\ \A k \in 1..Len(inflight) : inflight[k].id # id))

\* A create_project request without client fields, pm_id, contract or tasks,
\* on its own connection.  BeginCreateProject runs generate_id and
\* next_project_number and keeps the row in flight; FinishCreateProject runs
\* the INSERT and db.commit().  A request that runs alone is the one directly
\* followed by the other.
BeginCreateProject ==
    /\ Len(inflight) < MaxInflight
    /\ next_project_number(projects) # <<>>
    /\ inflight' = Append(inflight,
                          [op |-> "create_project", id |-> NewProjectId,
                           row |-> Project(NullText, next_project_number(projects),
                                           NoClient)])
    /\ UNCHANGED <<db, clock, last, billed_before>>

FinishCreateProject(k) ==
    /\ k \in 1..Len(inflight)
    /\ projects' = [p \in DOMAIN projects \cup {inflight[k].id} |->
                       IF p = inflight[k].id THEN inflight[k].row ELSE projects[p]]
    /\ inflight' = [j \in 1..(Len(inflight) - 1) |->
                      IF j < k THEN inflight[j] ELSE inflight[j + 1]]
    /\ last' = Response("create_project", 201, NullId)
    /\ billed_before' = NoSnapshot
    /\ UNCHANGED <<contracts, contract_tasks, invoices, invoice_line_items,
                   crm, clock>>

\* PATCH /projects/{project_id} with only project_number in the body
\* (updated_at is not among the columns of the modelled rows)
update_project(project_id, project_number) ==
    IF ~(project_id \in DOMAIN projects /\ projects[project_id].deleted_at = NullTime)
    THEN /\ last' = Response("update_project", 404, NullId)
         /\ billed_before' = NoSnapshot
         /\ UNCHANGED <<db, clock, inflight>>
    ELSE /\ projects' = [projects EXCEPT ![project_id].project_number = project_number]
         /\ last' = Response("update_project", 200, NullId)
         /\ billed_before' = NoSnapshot
         /\ UNCHANGED <<contracts, contract_tasks, invoices, invoice_line_items,
                        crm, clock, inflight>>

(***************************************************************************)
(* Concurrent requests.  Each request has its own connection; its reads    *)
(* see what is committed when they run and its INSERTs and commit come     *)
(* later.  BeginCreate runs the reads of one of the three invoice-creating *)
(* handlers and keeps the plan in flight; FinishCreate runs its writes.    *)
(***************************************************************************)
CreatePlans(now) ==
    {add_invoice_plan(p, NullText, 100, now) : p \in ProjectIds}
    \cup {invoice_from_contract_plan(c, tasks, NullText, now) :
             c \in ContractIds, tasks \in TaskLists}
    \cup {create_next_plan(i, now) : i \in 1..Len(invoices)}

BeginCreate(plan) ==
    /\ Len(inflight) < MaxInflight
    /\ Len(invoices) + Len(inflight) < MaxInvoices
    /\ plan.status = 200
    /\ inflight' = Append(inflight, plan)
    /\ clock' = clock + 1
    /\ UNCHANGED <<db, last, billed_before>>

FinishCreate(k) ==
    /\ k \in 1..Len(inflight)
    /\ Commit(inflight[k])
    /\ billed_before' = NoSnapshot
    /\ inflight' = [j \in 1..(Len(inflight) - 1) |->
                      IF j < k THEN inflight[j] ELSE inflight[j + 1]]
    /\ UNCHANGED clock

(***************************************************************************)
(* A creating request whose write statement number fail_at raises (a       *)
(* database error).  The statements of a plan are, in order: the INSERT of *)
(* the invoice, one INSERT per line item, the UPDATE of the project when   *)
(* the handler has one; db.commit() follows the last of them.              *)
(***************************************************************************)
Statements(plan) == 1 + Len(plan.items) + (IF plan.set_current THEN 1 ELSE 0)

\* mutant: a connection in autocommit mode keeps every statement that ran
KeptWithAutocommit(executed) == executed

\* get_db: the handler's exception leaves the generator through finally,
\* which closes a connection that was never committed; of the statements that
\* ran before the failing one, none is kept
KeptAfterClose(executed) == 0

\* the tables after the first n statements of a plan
InvoicesAfter(plan, n) ==
    IF n >= 1 THEN Append(invoices, plan.row) ELSE invoices

LineItemsAfter(plan, n) ==
    LET done == IF n - 1 < Len(plan.items) THEN n - 1 ELSE Len(plan.items)
    IN IF n >= 2
       THEN invoice_line_items
               \o SubSeq(LineItemRows(Len(invoices) + 1, plan.items), 1, done)
       ELSE invoice_line_items

ProjectsAfter(plan, n) ==
    IF plan.set_current /\ n >= Statements(plan)
    THEN [projects EXCEPT ![plan.row.project_id].current_invoice_id = Len(invoices) + 1]
    ELSE projects

FailingCreate(plan, fail_at) ==
    /\ plan.status = 200
    /\ fail_at \in 1..Statements(plan)
    /\ LET kept == KeptAfterClose(fail_at - 1)
       IN /\ invoices' = InvoicesAfter(plan, kept)
          /\ invoice_line_items' = LineItemsAfter(plan, kept)
          /\ projects' = ProjectsAfter(plan, kept)
    /\ last' = Response(plan.op, 500, plan.target)
    /\ billed_before' = NoSnapshot
    /\ UNCHANGED <<contracts, contract_tasks, crm, clock, inflight>>

(***************************************************************************)
(* Specifications                                                          *)
(***************************************************************************)
\* the invoices table is kept within MaxInvoices rows
Next ==
    \/ \E p \in ProjectIds, n \in NumberInputs, d \in TotalDueInputs :
          Len(invoices) < MaxInvoices /\ add_invoice_to_project(p, n, d)
    \/ \E c \in ContractIds, tasks \in TaskLists :
          Len(invoices) < MaxInvoices /\ create_invoice_from_contract(c, tasks, NullText)
    \/ \E i \in 1..MaxInvoices :
          Len(invoices) < MaxInvoices /\ create_next_invoice(i)
    \/ \E i \in 1..MaxInvoices, data \in InvoiceUpdates : update_invoice(i, data)
    \/ \E i \in 1..MaxInvoices : delete_invoice(i)

Spec == Init /\ [][Next]_vars

\* a creation that runs alone is BeginCreate directly followed by FinishCreate
NextConcurrent ==
    \/ \E plan \in CreatePlans(clock + 1) : BeginCreate(plan)
    \/ \E k \in 1..MaxInflight : FinishCreate(k)
    \/ \E i \in 1..MaxInvoices, data \in InvoiceUpdates : update_invoice(i, data)
    \/ \E i \in 1..MaxInvoices : delete_invoice(i)

SpecConcurrent == Init /\ [][NextConcurrent]_vars

\* One contract's invoice chain, one request at a time, with room for a third
\* invoice: invoices of contract c1 are created, edited, sent, deleted and
\* continued with create-next.
ChainTaskLists == {<<TaskSpec("t1", 50)>>}

ChainUpdates ==
    {InvoiceUpdate("sent", Absent, FALSE, <<>>),
     InvoiceUpdate(NoStatus, Absent, TRUE, <<LineItemEdit(25, 200, Absent)>>)}

NextChain ==
    \/ \E tasks \in ChainTaskLists :
          Len(invoices) < MaxChain /\ create_invoice_from_contract("c1", tasks, NullText)
    \/ \E i \in 1..MaxChain :
          Len(invoices) < MaxChain /\ create_next_invoice(i)
    \/ \E i \in 1..MaxChain, data \in ChainUpdates : update_invoice(i, data)
    \/ \E i \in 1..MaxChain : delete_invoice(i)

SpecChain == Init /\ [][NextChain]_vars

\* The three creating handlers, one request at a time, where any write
\* statement of a request may raise.
MaxStatements == 4

NextFaults ==
    \/ \E p \in ProjectIds :
          Len(invoices) < MaxInvoices /\ add_invoice_to_project(p, NullText, 100)
    \/ \E c \in ContractIds, tasks \in TaskLists :
          Len(invoices) < MaxInvoices /\ create_invoice_from_contract(c, tasks, NullText)
    \/ \E i \in 1..MaxInvoices :
          Len(invoices) < MaxInvoices /\ create_next_invoice(i)
    \/ \E plan \in CreatePlans(clock + 1), fail_at \in 1..MaxStatements :
          Len(invoices) < MaxInvoices /\ FailingCreate(plan, fail_at)
    \/ \E i \in 1..MaxInvoices : update_invoice(i, InvoiceUpdate("sent", Absent, FALSE, <<>>))

SpecFaults == Init /\ [][NextFaults]_vars

\* Invoices created from contracts with the sheet renderer, one request at a
\* time.
NextSheets ==
    \/ \E c \in ContractIds, tasks \in TaskLists, sheet \in SheetOutcomes :
          /\ Len(invoices) < MaxInvoices
          /\ create_invoice_from_contract_sheet(c, tasks, NullText, sheet)
    \/ \E i \in 1..MaxInvoices : delete_invoice(i)

SpecSheets == Init /\ [][NextSheets]_vars

\* Contracts, their tasks and proposal promotion, one request at a time.  The
\* contracts table is kept within MaxContracts rows, the contract_tasks table
\* within MaxTasks rows.  c3 is the first contract a request creates and t4
\* the first task; c9, t9, q9 and P9 are ids that have no row.
ContractBodies ==
    {ContractCreate(0, FALSE, <<>>),
     ContractCreate(500, FALSE, <<>>),
     ContractCreate(500, TRUE, <<TaskInput("Design", 100), TaskInput("Build", 50)>>)}

ContractUpdates ==
    {ContractUpdate(FALSE, <<>>),
     ContractUpdate(TRUE, <<>>),
     ContractUpdate(TRUE, <<TaskInput("Design", 70)>>)}

TaskAmounts == {Absent, 70}

NextContracts ==
    \/ \E p \in {"P1", "P9"}, data \in ContractBodies :
          /\ Cardinality(DOMAIN contracts) < MaxContracts
          /\ create_contract(p, data)
          /\ Cardinality(DOMAIN contract_tasks') <= MaxTasks
    \/ \E c \in {"c3", "c9"}, data \in ContractUpdates : update_contract(c, data)
    \/ \E c \in {"c3", "c9"} :
          /\ Cardinality(DOMAIN contract_tasks) < MaxTasks
          /\ add_contract_task(c, TaskInput("Extra", 30))
    \/ \E c \in {"c3"}, t \in {"t4", "t9"}, amount \in TaskAmounts :
          update_contract_task(c, t, amount)
    \/ \E c \in {"c3"}, t \in {"t4", "t9"} : delete_contract_task(c, t)
    \/ \E q \in ProposalIds \cup {"q9"} :
          /\ Cardinality(DOMAIN contracts) < MaxContracts
          /\ promote_to_contract(q)
          /\ Cardinality(DOMAIN contract_tasks') <= MaxTasks
    \/ \E q \in {"q1", "q9"} : update_proposal(q, 250)

SpecContracts == Init /\ [][NextContracts]_vars

\* Invoice creation from contracts next to soft deletes of contracts and
\* invoices, one request at a time.  c9 is a contract id that has no row.
ContractInputs == ContractIds \cup {"c9"}

\* t9 is a task id that has no row
LifecycleTaskLists ==
    TaskLists \cup {<<TaskSpec("t1", 50), TaskSpec("t9", 50)>>}

NextLifecycle ==
    \/ \E c \in ContractInputs, tasks \in LifecycleTaskLists :
          Len(invoices) < MaxInvoices /\ create_invoice_from_contract(c, tasks, NullText)
    \/ \E i \in 1..MaxInvoices : delete_invoice(i)
    \/ \E c \in ContractInputs : delete_contract(c)

SpecLifecycle == Init /\ [][NextLifecycle]_vars

\* Soft deletes of every entity type, one request at a time, with up to
\* MaxListed invoices of contract c1 to delete.
MaxListed == 1

NextSoftDelete ==
    \/ \E tasks \in ChainTaskLists :
          Len(invoices) < MaxListed /\ create_invoice_from_contract("c1", tasks, NullText)
    \/ \E i \in 1..MaxListed : delete_invoice(i)
    \/ delete_contract("c1")
    \/ \E cascade \in BOOLEAN : delete_project("P1", cascade)
    \/ delete_proposal("q1")
    \/ \E c \in ClientIds : delete_client(c)
    \/ \E e \in EmployeeIds : delete_employee(e)

SpecSoftDelete == Init /\ [][NextSoftDelete]_vars

\* Project deletion with and without cascade, one request at a time, next to
\* up to MaxListed invoices, of contract c1 (project P1) or standalone on
\* project P2, and to earlier soft deletes of a contract and an invoice.
NextCascade ==
    \/ \E tasks \in ChainTaskLists :
          Len(invoices) < MaxListed /\ create_invoice_from_contract("c1", tasks, NullText)
    \/ Len(invoices) < MaxListed /\ add_invoice_to_project("P2", NullText, 100)
    \/ \E i \in 1..MaxListed : delete_invoice(i)
    \/ delete_contract("c1")
    \/ \E cascade \in BOOLEAN : delete_project("P1", cascade)

SpecCascade == Init /\ [][NextCascade]_vars

\* The documents of invoices, one request at a time: invoices of contract c1
\* and standalone invoices of project P2 (which has no client) get a sheet,
\* a PDF, are sent, continued and deleted.  The clock is kept within MaxClock
\* by the requests that stamp sent_at or deleted_at.
MaxClock == 4

NextDocuments ==
    \/ \E tasks \in ChainTaskLists :
          Len(invoices) < MaxInvoices /\ create_invoice_from_contract("c1", tasks, NullText)
    \/ Len(invoices) < MaxInvoices /\ add_invoice_to_project("P2", NullText, 100)
    \/ \E i \in 1..MaxInvoices : Len(invoices) < MaxInvoices /\ create_next_invoice(i)
    \/ \E i \in 1..MaxInvoices, force \in BOOLEAN, sheet \in SheetOutcomes \ {"skipped"} :
          generate_sheet_for_invoice(i, force, sheet)
    \/ \E i \in 1..MaxInvoices, export_ok \in BOOLEAN : export_invoice_pdf(i, export_ok)
    \/ \E i \in 1..MaxInvoices, export_ok \in BOOLEAN, notify_ok \in BOOLEAN :
          clock < MaxClock /\ send_invoice(i, export_ok, notify_ok)
    \/ \E i \in 1..MaxInvoices : clock < MaxClock /\ delete_invoice(i)

SpecDocuments == Init /\ [][NextDocuments]_vars

\* Payments, one request at a time: invoices of contract c1 and standalone
\* invoices of both projects are created, deleted and paid by number.  A
\* payment names the number of an invoice in the table, deleted or not, or a
\* number that no invoice has.
MissingNumber == <<"N", "O", "N", "E">>

PaymentNumbers ==
    {invoices[k].invoice_number : k \in 1..Len(invoices)} \cup {MissingNumber}

NextPayments ==
    \/ \E tasks \in ChainTaskLists :
          Len(invoices) < MaxInvoices /\ create_invoice_from_contract("c1", tasks, NullText)
    \/ \E p \in ProjectIds :
          Len(invoices) < MaxInvoices /\ add_invoice_to_project(p, NullText, 100)
    \/ \E i \in 1..MaxInvoices : clock < MaxClock /\ delete_invoice(i)
    \/ \E invoice \in PaymentNumbers : clock < MaxClock /\ submit_payment(invoice)

SpecPayments == Init /\ [][NextPayments]_vars

\* Project numbers: projects are created by requests that may overlap, and
\* the numbers of projects P1 and P2 are edited.  The projects table is kept within
\* MaxProjects rows.
MaxProjects == 4

ProjectNumberInputs ==
    { <<"2", "6", "-", "0", "0", "9">>, <<"2", "6", "-", "9", "9", "9">> }

NextNumbers ==
    \/ Cardinality(DOMAIN projects) + Len(inflight) < MaxProjects /\ BeginCreateProject
    \/ \E k \in 1..MaxInflight : FinishCreateProject(k)
    \/ \E p \in ProjectIds, n \in ProjectNumberInputs : update_project(p, n)

SpecNumbers == Init /\ [][NextNumbers]_vars

\* The tasks of contract c1 next to its soft delete, one request at a time:
\* tasks are added to c1 and edited, and the tasks c1 starts with are removed,
\* before and after c1 is deleted.  t9 is a task id that has no row.  The
\* contract_tasks table and its sort orders are kept within MaxTasks.
NextTaskEdits ==
    \/ delete_contract("c1")
    \/ /\ Cardinality(DOMAIN contract_tasks) < MaxTasks
       /\ \A t \in DOMAIN contract_tasks : contract_tasks[t].sort_order < MaxTasks
       /\ add_contract_task("c1", TaskInput("Extra", 30))
    \/ \E t \in {"t1", "t4", "t9"}, amount \in TaskAmounts :
          update_contract_task("c1", t, amount)
    \/ \E t \in {"t1", "t2", "t9"} : delete_contract_task("c1", t)

SpecTaskEdits == Init /\ [][NextTaskEdits]_vars

(***************************************************************************)
(* Properties.  Helper definitions take the tables as arguments so that    *)
(* they can be read in the state before and after a step.                  *)
(***************************************************************************)
CreateOps ==
    {"add_invoice_to_project", "create_invoice_from_contract", "create_next_invoice"}

\* the new row of a step that inserted an invoice
NewInvoice == invoices'[Len(invoices')]

\* the largest numeric suffix among all invoices of a project, deleted or not
MaxSuffixOfProject(project_id) ==
    Max({0} \cup {NumericSuffix(invoices[k].invoice_number) :
                     k \in {j \in 1..Len(invoices) :
                               invoices[j].project_id = project_id}})

\* the line items of an invoice in a line-item table, in sort_order
ItemsIn(items, invoice_id) ==
    LET mine == {k \in 1..Len(items) : items[k].invoice_id = invoice_id}
        at(n) == CHOOSE k \in mine : items[k].sort_order = n
    IN [n \in 1..Cardinality(mine) |-> items[at(n)]]

\* sum of amount over the line items in a set of row indexes
RECURSIVE AmountOver(_, _)
AmountOver(items, S) ==
    IF S = {} THEN 0
    ELSE LET k == CHOOSE k \in S : TRUE
         IN items[k].amount + AmountOver(items, S \ {k})

\* the line items that count for a task name of a contract: same name, on an
\* invoice of that contract that is not soft-deleted
CountedItems(invs, items, contract_id, name) ==
    {k \in 1..Len(items) :
        /\ items[k].name = name
        /\ invs[items[k].invoice_id].contract_id = contract_id
        /\ invs[items[k].invoice_id].deleted_at = NullTime}

Billed(invs, items, contract_id, name) ==
    AmountOver(items, CountedItems(invs, items, contract_id, name))

\* C1: every creation with an auto-assigned number succeeds, and the number
\* it gives the new invoice has suffix 1 + the largest numeric suffix over all
\* invoices of the project, soft-deleted ones included, so the number differs
\* from every number the project has issued before.
C1_NextNumberIsMaxPlusOne ==
    [][/\ last'.op \in CreateOps => last'.status # 500
       /\ Len(invoices') > Len(invoices) =>
             /\ NumericSuffix(NewInvoice.invoice_number)
                   = 1 + MaxSuffixOfProject(NewInvoice.project_id)
             /\ \A k \in 1..Len(invoices) :
                   invoices[k].project_id = NewInvoice.project_id
                      => invoices[k].invoice_number # NewInvoice.invoice_number]_vars

\* create A, delete A, create B in the same project: B has suffix 2
C1_Witness ==
    /\ Len(invoices) = 2
    /\ invoices[1].project_id = invoices[2].project_id
    /\ invoices[1].deleted_at # NullTime
    /\ invoices[2].created_at > invoices[1].deleted_at
    /\ NumericSuffix(invoices[2].invoice_number) = 2

\* the prefix the numbering is documented to use
ExpectedPrefix(project_id) ==
    IF projects[project_id].job_code # NullText
    THEN projects[project_id].job_code
    ELSE IF projects[project_id].project_number # NullText
    THEN projects[project_id].project_number
    ELSE IdText(project_id)

\* C2: the prefix of every auto-assigned invoice number is the project's
\* job_code if set, otherwise its project_number if set, otherwise the
\* project id.
C2_PrefixFallsBackToProjectId ==
    \A k \in 1..Len(invoices) :
        invoices[k].invoice_number
           = ExpectedPrefix(invoices[k].project_id) \o <<"-">>
                \o str(NumericSuffix(invoices[k].invoice_number))

\* C3: concurrent invoice creations against one project all succeed and the
\* invoices get pairwise distinct, consecutive numbers.
C3_ConcurrentCreatesGetDistinctNumbers ==
    /\ last.op \in CreateOps => last.status # 500
    /\ \A p \in ProjectIds :
          LET mine == {k \in 1..Len(invoices) : invoices[k].project_id = p}
          IN /\ \A j, k \in mine :
                   j # k => invoices[j].invoice_number # invoices[k].invoice_number
             /\ {NumericSuffix(invoices[k].invoice_number) : k \in mine}
                   = 1..Cardinality(mine)

\* C4: create-next on an invoice that is not sent fails with the validation
\* error (400) and creates no invoice row and no line item and leaves every
\* project's current_invoice_id as it was.
C4_CreateNextRefusesUnsent ==
    [][(/\ last'.op = "create_next_invoice"
        /\ last'.id \in 1..Len(invoices)
        /\ invoices[last'.id].sent_status # "sent")
       => /\ invoices[last'.id].deleted_at = NullTime => last'.status = 400
          /\ last'.status # 200
          /\ invoices' = invoices
          /\ invoice_line_items' = invoice_line_items
          /\ \A p \in ProjectIds :
                projects'[p].current_invoice_id = projects[p].current_invoice_id]_vars

\* create-next was refused on an unsent invoice that has line items
C4_Witness ==
    /\ last.op = "create_next_invoice"
    /\ last.status = 400
    /\ last.id \in 1..Len(invoices)
    /\ invoices[last.id].sent_status = "unsent"
    /\ invoices[last.id].deleted_at = NullTime
    /\ ItemsIn(invoice_line_items, last.id) # <<>>

\* C5: a successful create-next on invoice I creates an invoice with one line
\* item per line item of I, in the same order, with the same name and
\* unit_price, quantity 0, amount 0 and previous_billing = I's previous_billing
\* + I's amount; the new invoice's total_due is 0.
C5_CreateNextCarriesBillingForward ==
    [][(last'.op = "create_next_invoice" /\ last'.status = 200)
       => LET old == ItemsIn(invoice_line_items, last'.id)
              new == ItemsIn(invoice_line_items', Len(invoices'))
          IN /\ Len(invoices') = Len(invoices) + 1
             /\ Len(invoice_line_items') = Len(invoice_line_items) + Len(old)
             /\ Len(new) = Len(old)
             /\ \A k \in 1..Len(old) :
                   /\ new[k].name = old[k].name
                   /\ new[k].unit_price = old[k].unit_price
                   /\ new[k].quantity = 0
                   /\ new[k].amount = 0
                   /\ new[k].previous_billing
                         = old[k].previous_billing + old[k].amount
             /\ NewInvoice.total_due = 0]_vars

\* create-next succeeded and carried a billed amount forward
C5_Witness ==
    /\ last.op = "create_next_invoice"
    /\ last.status = 200
    /\ \E k \in 1..Len(invoice_line_items) :
          /\ invoice_line_items[k].invoice_id = Len(invoices)
          /\ invoice_line_items[k].previous_billing > 0
          /\ invoice_line_items[k].amount = 0

\* C6: a successful create-next on invoice I creates an invoice whose
\* previous_invoice_id is I and whose project and contract are I's, and the
\* project's current_invoice_id is then the new invoice.
C6_CreateNextLinksAndRepoints ==
    [][(last'.op = "create_next_invoice" /\ last'.status = 200)
       => /\ Len(invoices') = Len(invoices) + 1
          /\ NewInvoice.previous_invoice_id = last'.id
          /\ NewInvoice.project_id = invoices[last'.id].project_id
          /\ NewInvoice.contract_id = invoices[last'.id].contract_id
          /\ projects'[NewInvoice.project_id].current_invoice_id
                = Len(invoices')]_vars

\* create-next succeeded on an invoice that was not the project's current one
C6_Witness ==
    /\ last.op = "create_next_invoice"
    /\ last.status = 200
    /\ invoices[Len(invoices)].previous_invoice_id = last.id
    /\ projects[invoices[Len(invoices)].project_id].current_invoice_id = Len(invoices)

\* C7: what a contract read reports for a task: billed_amount is the sum of
\* amount over the line items with the task's name on the contract's invoices
\* that are not soft-deleted; billed_percent is billed_amount / amount * 100,
\* and 0 when the task's amount is 0.
C7_ReadReportsBilledFromActiveInvoices ==
    \A c \in ContractIds :
        get_contract(c).status = 200 =>
            \A t \in TasksOfContract(c) :
                LET reported == get_contract(c).tasks[t]
                    amount == contract_tasks[t].amount
                IN /\ reported.billed_amount
                         = Billed(invoices, invoice_line_items, c, contract_tasks[t].name)
                   /\ amount = 0 => reported.billed_percent = 0
                   /\ amount # 0 =>
                         reported.billed_percent * amount = reported.billed_amount * 100

\* a task has billing that counts while a line item of the same name, on a
\* deleted invoice or on another contract's invoice, does not count
C7_Witness ==
    \E t \in TaskIds :
        LET c == contract_tasks[t].contract_id
            name == contract_tasks[t].name
        IN /\ get_contract(c).tasks[t].billed_amount > 0
           /\ \E k \in 1..Len(invoice_line_items) :
                 /\ invoice_line_items[k].name = name
                 /\ invoice_line_items[k].amount > 0
                 /\ k \notin CountedItems(invoices, invoice_line_items, c, name)

\* C8: soft-deleting an invoice lowers each task's computed billed_amount by
\* the sum of that invoice's line-item amounts with the task's name, for the
\* tasks of the invoice's contract, and changes no other contract's tasks; and
\* deleting an invoice right after creating it from a contract puts every
\* task's billed_amount and billed_percent back to what they were.
C8_DeleteReversesBilling ==
    [][(last'.op = "delete_invoice" /\ last'.status = 200)
       => /\ \A t \in TaskIds :
                ReadBilling(invoices', invoice_line_items')[t].billed_amount
                   = BilledState[t].billed_amount
                     - (IF invoices[last'.id].contract_id = contract_tasks[t].contract_id
                        THEN AmountOver(invoice_line_items,
                                {k \in 1..Len(invoice_line_items) :
                                    /\ invoice_line_items[k].invoice_id = last'.id
                                    /\ invoice_line_items[k].name = contract_tasks[t].name})
                        ELSE 0)
          /\ (/\ last.op = "create_invoice_from_contract"
              /\ last.status = 200
              /\ last'.id = Len(invoices))
             => ReadBilling(invoices', invoice_line_items') = billed_before]_vars

\* an invoice of contract c1 that billed a task was deleted and the task is
\* back at zero, while an invoice of contract c2 is still active
C8_Witness ==
    /\ last.op = "delete_invoice"
    /\ last.status = 200
    /\ \E k \in 1..Len(invoice_line_items) :
          /\ invoice_line_items[k].invoice_id = last.id
          /\ invoice_line_items[k].amount > 0
          /\ invoices[last.id].contract_id = "c1"
    /\ BilledState["t1"].billed_amount = 0
    /\ \E j \in 1..Len(invoices) :
          invoices[j].contract_id = "c2" /\ invoices[j].deleted_at = NullTime

\* C9: deleting an invoice that is already soft-deleted answers 404 and leaves
\* its deleted_at, every task's computed billing and every project's
\* current_invoice_id as they were.
C9_SecondDeleteChangesNothing ==
    [][(/\ last'.op = "delete_invoice"
        /\ last'.id \in 1..Len(invoices)
        /\ invoices[last'.id].deleted_at # NullTime)
       => /\ last'.status = 404
          /\ invoices'[last'.id].deleted_at = invoices[last'.id].deleted_at
          /\ ReadBilling(invoices', invoice_line_items') = BilledState
          /\ \A p \in ProjectIds :
                projects'[p].current_invoice_id = projects[p].current_invoice_id]_vars

\* a delete of an already deleted invoice was answered 404
C9_Witness ==
    /\ last.op = "delete_invoice"
    /\ last.status = 404
    /\ last.id \in 1..Len(invoices)
    /\ invoices[last.id].deleted_at # NullTime

\* walking previous_invoice_id back from an invoice: ends at a null link within
\* `fuel` steps, every invoice on the way having the contract of the start
RECURSIVE ChainEnds(_, _, _)
ChainEnds(invoice_id, contract_id, fuel) ==
    /\ invoice_id \in 1..Len(invoices)
    /\ invoices[invoice_id].contract_id = contract_id
    /\ \/ invoices[invoice_id].previous_invoice_id = NullId
       \/ /\ fuel > 0
          /\ ChainEnds(invoices[invoice_id].previous_invoice_id, contract_id, fuel - 1)

\* C10: following previous_invoice_id backward from any invoice reaches an
\* invoice with a null previous_invoice_id (no cycle), and every invoice visited
\* has the contract_id of the starting invoice.
C10_ChainTerminatesWithinContract ==
    \A i \in 1..Len(invoices) :
        ChainEnds(i, invoices[i].contract_id, Len(invoices))

\* an invoice is chained to a predecessor of its own contract
C10_Witness ==
    \E i \in 1..Len(invoices) :
        /\ invoices[i].previous_invoice_id \in 1..Len(invoices)
        /\ invoices[invoices[i].previous_invoice_id].contract_id = invoices[i].contract_id
        /\ invoices[invoices[i].previous_invoice_id].previous_invoice_id = NullId

\* C11: the non-deleted invoices never fork: no two of them have the same
\* non-null previous_invoice_id, whatever sequence of create-from-contract,
\* create-next, marking sent and soft delete has run.
C11_ChainHasNoFork ==
    \A i, j \in 1..Len(invoices) :
        (/\ i # j
         /\ invoices[i].deleted_at = NullTime
         /\ invoices[j].deleted_at = NullTime
         /\ invoices[i].previous_invoice_id # NullId)
        => invoices[i].previous_invoice_id # invoices[j].previous_invoice_id

\* what a successful create-from-contract of the entries `tasks` must have
\* written as the newest invoice
FromContractWrote(tasks) ==
    LET new == ItemsIn(invoice_line_items', Len(invoices'))
    IN /\ NewInvoice.type = "task"
       /\ Len(new) = Len(tasks)
       /\ \A k \in 1..Len(tasks) :
             LET task == contract_tasks[tasks[k].task_id]
             IN /\ new[k].name = task.name
                /\ new[k].unit_price = task.amount
                /\ new[k].quantity = tasks[k].percent_this_invoice
                /\ new[k].amount * 100
                      = task.amount * tasks[k].percent_this_invoice
       /\ NewInvoice.total_due
             = AmountOver(invoice_line_items',
                          {k \in 1..Len(invoice_line_items') :
                              invoice_line_items'[k].invoice_id = Len(invoices')})

\* C12: a successful create-from-contract creates a task invoice with one line
\* item per request entry, in request order, with unit_price = task.amount,
\* quantity = percent_this_invoice and amount = task.amount *
\* percent_this_invoice / 100, and total_due = the sum of the line items'
\* amounts.
C12_FromContractBillsRequestedPercent ==
    [][(last'.op = "create_invoice_from_contract" /\ last'.status = 200)
       => /\ Len(invoices') = Len(invoices) + 1
          /\ \A c \in ContractIds, tasks \in TaskLists :
                create_invoice_from_contract(c, tasks, NullText)
                   => FromContractWrote(tasks)]_vars

\* an invoice of two line items was created from a contract, one of them
\* billing half of a non-zero fee
C12_Witness ==
    /\ last.op = "create_invoice_from_contract"
    /\ last.status = 200
    /\ Len(ItemsIn(invoice_line_items, Len(invoices))) = 2
    /\ \E k \in 1..Len(invoice_line_items) :
          /\ invoice_line_items[k].invoice_id = Len(invoices)
          /\ invoice_line_items[k].quantity = 50
          /\ invoice_line_items[k].amount = 100
    /\ invoices[Len(invoices)].total_due = 100

\* C13: when create-from-contract or create-next creates an invoice, each of
\* its line items has previous_billing = the sum of the amounts of the line
\* items of the same name on the contract's non-deleted invoices that existed
\* before it.
C13_PreviousBillingIsPriorActiveSum ==
    [][(/\ last'.op \in {"create_invoice_from_contract", "create_next_invoice"}
        /\ last'.status = 200)
       => \A k \in 1..Len(invoice_line_items') :
             invoice_line_items'[k].invoice_id = Len(invoices')
                => invoice_line_items'[k].previous_billing
                      = Billed(invoices, invoice_line_items,
                               NewInvoice.contract_id,
                               invoice_line_items'[k].name)]_vars

(***************************************************************************)
(* C14: creating an invoice from a contract answers NotFound when the      *)
(* contract has no row or is soft-deleted, or when any entry of the tasks  *)
(* list names a task that has no row or belongs to another contract; the   *)
(* request then leaves no invoice row, no line item and no change of any   *)
(* project's current_invoice_id, also when entries before the failing one  *)
(* were valid.                                                             *)
(***************************************************************************)
ContractGone(c) ==
    c \notin DOMAIN contracts \/ contracts[c].deleted_at # NullTime

ForeignTask(c, tasks) ==
    \E k \in 1..Len(tasks) :
       \/ tasks[k].task_id \notin DOMAIN contract_tasks
       \/ contract_tasks[tasks[k].task_id].contract_id # c

C14_FromContractNotFoundWritesNothing ==
    [][\A c \in ContractInputs, tasks \in LifecycleTaskLists :
          (/\ create_invoice_from_contract(c, tasks, NullText)
           /\ (ContractGone(c) \/ ForeignTask(c, tasks)))
          => /\ last'.status = 404
             /\ invoices' = invoices
             /\ invoice_line_items' = invoice_line_items
             /\ projects' = projects]_vars

\* a request has just been refused while contract c1 is live and has an
\* invoice and contract c2 is soft-deleted
C14_Witness ==
    /\ last.op = "create_invoice_from_contract"
    /\ last.status = 404
    /\ ~ContractGone("c1")
    /\ \E i \in 1..Len(invoices) : invoices[i].contract_id = "c1"
    /\ ContractGone("c2")

(***************************************************************************)
(* C15: invoice creation is all-or-nothing.  A creating request either     *)
(* answers with an error and leaves every table as it was, whichever of    *)
(* its statements failed, or it succeeds and has written the invoice row,  *)
(* all of its line items and, for the handlers that set it, the project's  *)
(* current_invoice_id.                                                     *)
(***************************************************************************)
WholePlanWritten(plan) ==
    /\ plan.status = 200
    /\ invoices' = Append(invoices, plan.row)
    /\ invoice_line_items' =
          invoice_line_items \o LineItemRows(Len(invoices) + 1, plan.items)
    /\ plan.set_current =>
          projects'[plan.row.project_id].current_invoice_id = Len(invoices) + 1

C15_CreationIsAllOrNothing ==
    [][last'.op \in CreateOps =>
          \/ last'.status # 200 /\ db' = db
          \/ /\ last'.status = 200
             /\ \E plan \in CreatePlans(clock + 1) : WholePlanWritten(plan)]_vars

\* a request to create an invoice from a contract has just failed at one of
\* its statements, after an invoice with two line items was created whole
C15_Witness ==
    /\ last.op = "create_invoice_from_contract"
    /\ last.status = 500
    /\ Len(invoices) = 1
    /\ Len(ItemsIn(invoice_line_items, 1)) = 2
    /\ projects["P1"].current_invoice_id = 1

(***************************************************************************)
(* C16: when an invoice is created from a contract and the sheet renderer  *)
(* fails, the request still succeeds: the invoice row and its line items,  *)
(* written before the renderer ran, are in the tables, the invoice's       *)
(* data_path is unset, and the response carries the non-fatal warning.     *)
(***************************************************************************)
C16_SheetFailureKeepsInvoice ==
    [][\A c \in ContractIds, tasks \in TaskLists, sheet \in SheetFailures :
          (/\ create_invoice_from_contract_sheet(c, tasks, NullText, sheet)
           /\ invoice_from_contract_plan(c, tasks, NullText, clock + 1).status = 200)
          => /\ last'.status = 200
             /\ last'.warning
             /\ Len(invoices') = Len(invoices) + 1
             /\ NewInvoice.contract_id = c
             /\ NewInvoice.deleted_at = NullTime
             /\ NewInvoice.data_path = NullText
             /\ Len(ItemsIn(invoice_line_items', Len(invoices'))) = Len(tasks)]_vars

\* the last request created an invoice and answers with the warning, next to
\* an earlier invoice that has its sheet
C16_Witness ==
    /\ last.op = "create_invoice_from_contract"
    /\ last.status = 200
    /\ last.warning
    /\ Len(invoices) = 2
    /\ invoices[1].data_path = SheetUrl
    /\ invoices[2].data_path = NullText
    /\ Len(ItemsIn(invoice_line_items, 2)) >= 1

(***************************************************************************)
(* C17: promoting a proposal creates exactly one contract, under the       *)
(* proposal's project and with total_amount = the proposal's total_fee,    *)
(* and exactly one contract task per proposal task, with the same          *)
(* sort_order, name, description and amount and with billed_amount =       *)
(* billed_percent = 0; the proposal's tasks are left as they were.         *)
(***************************************************************************)
CopyOf(ctask, ptask, contract_id) ==
    /\ ctask.contract_id = contract_id
    /\ ctask.sort_order = ptask.sort_order
    /\ ctask.name = ptask.name
    /\ ctask.description = ptask.description
    /\ ctask.amount = ptask.amount
    /\ ctask.billed_amount = 0
    /\ ctask.billed_percent = 0

Promoted(q) ==
    LET new_contracts == DOMAIN contracts' \ DOMAIN contracts
        new_tasks == DOMAIN contract_tasks' \ DOMAIN contract_tasks
        ptasks == {t \in DOMAIN proposal_tasks : proposal_tasks[t].proposal_id = q}
    IN /\ Cardinality(new_contracts) = 1
       /\ \A c \in new_contracts :
             /\ contracts'[c].project_id = proposals[q].project_id
             /\ contracts'[c].total_amount = proposals[q].total_fee
             /\ contracts'[c].deleted_at = NullTime
             /\ Cardinality(new_tasks) = Cardinality(ptasks)
             /\ \A pt \in ptasks :
                   Cardinality({t \in new_tasks :
                                   CopyOf(contract_tasks'[t], proposal_tasks[pt], c)}) = 1
       /\ \A c \in DOMAIN contracts : contracts'[c] = contracts[c]
       /\ \A t \in DOMAIN contract_tasks :
             t \in DOMAIN contract_tasks' /\ contract_tasks'[t] = contract_tasks[t]
       /\ proposal_tasks' = proposal_tasks

C17_PromoteCopiesProposal ==
    [][\A q \in ProposalIds :
          (promote_to_contract(q) /\ ActiveRow(proposals, q)) => Promoted(q)]_vars

\* proposal q1, whose total_fee was edited to 250 while its tasks sum to 300,
\* has just been promoted into contract c3 with two tasks
C17_Witness ==
    /\ last.op = "promote_to_contract"
    /\ last.status = 200
    /\ proposals["q1"].status = "accepted"
    /\ "c3" \in DOMAIN contracts
    /\ contracts["c3"].total_amount = 250
    /\ Cardinality(TasksOfContract("c3")) = 2

(***************************************************************************)
(* C18: promoting a proposal that has no tasks fails with a precondition   *)
(* error and writes nothing: no contract is created, and the proposal's    *)
(* status and the project's status stay as they were.                      *)
(***************************************************************************)
C18_PromoteWithoutTasksRefused ==
    [][\A q \in ProposalIds :
          (/\ promote_to_contract(q)
           /\ ActiveRow(proposals, q)
           /\ TasksOfProposal(q) = <<>>)
          => /\ last'.status \notin {200, 201}
             /\ contracts' = contracts
             /\ contract_tasks' = contract_tasks
             /\ proposals' = proposals
             /\ projects' = projects]_vars

(***************************************************************************)
(* C19: in every reachable state the total_amount of each contract is the  *)
(* sum of the amounts of its contract tasks.                               *)
(***************************************************************************)
TaskTotal(contract_id) == AmountOver(contract_tasks, TasksOfContract(contract_id))

C19_TotalIsSumOfTasks ==
    \A c \in DOMAIN contracts : contracts[c].total_amount = TaskTotal(c)

(***************************************************************************)
(* C20: a client, project, contract, proposal, employee or invoice that    *)
(* has been soft-deleted is NotFound by id (an invoice also by its number) *)
(* and is in no listing of its entity type, the contracts, invoices and    *)
(* proposals embedded in the read of a project and in the list of projects *)
(* included.                                                               *)
(***************************************************************************)
Deleted(table) == {id \in DOMAIN table : table[id].deleted_at # NullTime}

HiddenById(table) ==
    \A id \in Deleted(table) :
       get_by_id(table, id) = NotFound /\ id \notin list_rows(table)

HiddenInProjects ==
    /\ \A p \in Deleted(projects) :
          /\ get_project(projects, contracts, invoices, proposals, p).status = 404
          /\ p \notin DOMAIN list_projects(projects, contracts, invoices, proposals)
    /\ \A p \in DOMAIN projects :
          LET read == get_project(projects, contracts, invoices, proposals, p)
          IN /\ read.contracts \cap Deleted(contracts) = {}
             /\ read.invoices \cap Deleted(invoices) = {}
             /\ read.proposals \cap Deleted(proposals) = {}
    /\ LET listed == list_projects(projects, contracts, invoices, proposals)
       IN \A p \in DOMAIN listed :
             /\ listed[p].contracts \cap Deleted(contracts) = {}
             /\ listed[p].invoices \cap Deleted(invoices) = {}
             /\ listed[p].proposals \cap Deleted(proposals) = {}

C20_SoftDeletedIsHidden ==
    /\ HiddenById(clients)
    /\ HiddenById(employees)
    /\ HiddenById(proposals)
    /\ HiddenById(contracts)
    /\ \A c \in Deleted(contracts) : get_contract(c).status = 404
    /\ \A i \in Deleted(invoices) :
          /\ get_invoice(invoices, i) = NotFound
          /\ i \notin get_invoice_by_number(invoices, invoices[i].invoice_number).ids
    /\ HiddenInProjects

\* one row of each of the five other entity types is soft-deleted while
\* project P1 is live and its read still lists contract c2 and proposal q2
C20_Witness ==
    /\ Deleted(clients) # {}
    /\ Deleted(employees) # {}
    /\ Deleted(proposals) = {"q1"}
    /\ Deleted(contracts) = {"c1"}
    /\ Deleted(invoices) = {1}
    /\ LET read == get_project(projects, contracts, invoices, proposals, "P1")
       IN /\ read.status = 200
          /\ read.contracts = {"c2"}
          /\ read.proposals = {"q2"}
          /\ read.invoices = {}

(***************************************************************************)
(* C21: no contract, proposal or invoice is created under a soft-deleted   *)
(* project, and no invoice is created for a soft-deleted contract: a step  *)
(* that inserts such a row finds the project it writes under, and the      *)
(* contract it bills, not soft-deleted.                                    *)
(***************************************************************************)
LiveProject(project_id) == projects[project_id].deleted_at = NullTime

C21_NothingCreatedUnderDeleted ==
    [][/\ \A i \in (Len(invoices) + 1)..Len(invoices') :
             /\ LiveProject(invoices'[i].project_id)
             /\ invoices'[i].contract_id # NoContract
                   => contracts[invoices'[i].contract_id].deleted_at = NullTime
       /\ \A c \in DOMAIN contracts' \ DOMAIN contracts :
             LiveProject(contracts'[c].project_id)
       /\ \A q \in DOMAIN proposals' \ DOMAIN proposals :
             LiveProject(proposals'[q].project_id)]_vars

(***************************************************************************)
(* C23: after a PATCH of an invoice that supplies line_items and no        *)
(* total_due, the invoice's total_due is the sum of the amounts of all     *)
(* line items of that invoice as stored after the edit; when the PATCH     *)
(* supplies total_due, that value is stored.                               *)
(***************************************************************************)
C23_PatchTotalIsSumOfAllItems ==
    [][\A i \in 1..MaxInvoices, data \in InvoiceUpdates :
          (update_invoice(i, data) /\ ActiveInvoice(i))
          => /\ data.total_due # Absent => invoices'[i].total_due = data.total_due
             /\ (data.total_due = Absent /\ data.has_line_items)
                   => invoices'[i].total_due =
                         AmountOver(invoice_line_items',
                                    {k \in 1..Len(invoice_line_items') :
                                        invoice_line_items'[k].invoice_id = i})]_vars

(***************************************************************************)
(* C22: deleting a project with cascade soft-deletes the project and every *)
(* not yet deleted contract, invoice and proposal of that project and      *)
(* nothing of any other project; deleting it without cascade sets only the *)
(* project's deleted_at and leaves its contracts, invoices and proposals   *)
(* as they were.                                                           *)
(***************************************************************************)
\* the rows of a table after a cascade from project p at time now, as the
\* claim words it: row by row
Cascaded(before, after, p, now) ==
    /\ DOMAIN after = DOMAIN before
    /\ \A id \in DOMAIN before :
          IF before[id].project_id = p /\ before[id].deleted_at = NullTime
          THEN /\ after[id].deleted_at = now
               /\ [after[id] EXCEPT !.deleted_at = NullTime] = before[id]
          ELSE after[id] = before[id]

C22_DeleteProjectCascade ==
    [][\A p \in ProjectIds, cascade \in BOOLEAN :
          (delete_project(p, cascade) /\ ActiveRow(projects, p))
          => /\ projects'[p].deleted_at = clock'
             /\ projects'[p].deleted_at # NullTime
             /\ \A o \in ProjectIds \ {p} : projects'[o] = projects[o]
             /\ IF cascade
                THEN /\ Cascaded(contracts, contracts', p, clock')
                     /\ Cascaded(invoices, invoices', p, clock')
                     /\ Cascaded(proposals, proposals', p, clock')
                ELSE /\ contracts' = contracts
                     /\ invoices' = invoices
                     /\ proposals' = proposals]_vars

\* project P1 was deleted with cascade while contract c1 had been deleted
\* before it and project P2 had an invoice: c2 and both proposals carry the
\* project's deleted_at, c1 its own earlier one, and the invoice of P2 is live
C22_Witness ==
    /\ last.op = "delete_project"
    /\ last.status = 200
    /\ projects["P1"].deleted_at = clock
    /\ contracts["c2"].deleted_at = clock
    /\ proposals["q2"].deleted_at = clock
    /\ contracts["c1"].deleted_at \notin {NullTime, clock}
    /\ Len(invoices) = 1
    /\ invoices[1].project_id = "P2"
    /\ invoices[1].deleted_at = NullTime

(***************************************************************************)
(* C24: generate-sheet, export-pdf and send on an invoice change at most   *)
(* that invoice's data_path, pdf_path, sent_status and sent_at.  Every     *)
(* line item, the invoice's other columns (total_due, previous_invoice_id, *)
(* deleted_at among them), every other invoice and what the contract reads *)
(* report as billed stay as they were, whether the external call succeeds  *)
(* or fails.                                                               *)
(***************************************************************************)
DocumentOps == {"generate_sheet_for_invoice", "export_invoice_pdf", "send_invoice"}

DocumentColumns == {"data_path", "pdf_path", "sent_status", "sent_at"}

DocumentFrame(i) ==
    /\ invoice_line_items' = invoice_line_items
    /\ Len(invoices') = Len(invoices)
    /\ \A j \in 1..Len(invoices) :
          IF j = i
          THEN \A col \in DOMAIN invoices[j] \ DocumentColumns :
                  col \in DOMAIN invoices'[j] /\ invoices'[j][col] = invoices[j][col]
          ELSE invoices'[j] = invoices[j]
    /\ ReadBilling(invoices', invoice_line_items') = BilledState
    /\ UNCHANGED <<projects, contracts, contract_tasks, crm>>

C24_DocumentsLeaveBillingAlone ==
    [][last'.op \in DocumentOps => DocumentFrame(last'.id)]_vars

\* invoice 1 has just been sent, with its sheet and PDF, next to a second
\* invoice that is unsent and has no PDF
C24_Witness ==
    /\ last.op = "send_invoice"
    /\ last.status = 200
    /\ last.id = 1
    /\ Len(invoices) = 2
    /\ invoices[1].sent_status = "sent"
    /\ invoices[1].pdf_path = PdfUrl
    /\ invoices[1].total_due = 100
    /\ NotSent(invoices[2])
    /\ "pdf_path" \notin DOMAIN invoices[2]

(***************************************************************************)
(* C29: send marks an invoice sent, with sent_at, only when the PDF export *)
(* and the notifier have both succeeded.  When the invoice has no          *)
(* data_path, its project's client has no accounting email, or the         *)
(* exporter or the notifier fails, the invoices stay as they were, so an   *)
(* unsent invoice is still refused by create-next.                         *)
(***************************************************************************)
Sendable(i) ==
    /\ ActiveInvoice(i)
    /\ invoices[i].data_path # NullText
    /\ client_email(invoices[i].project_id) # NullText

C29_SentOnlyAfterDelivery ==
    [][\A i \in 1..MaxInvoices, export_ok \in BOOLEAN, notify_ok \in BOOLEAN :
          send_invoice(i, export_ok, notify_ok)
          => IF Sendable(i) /\ export_ok /\ notify_ok
             THEN /\ last'.status = 200
                  /\ invoices'[i].sent_status = "sent"
                  /\ invoices'[i].sent_at = clock'
                  /\ invoices'[i].sent_at # NullTime
             ELSE /\ last'.status # 200
                  /\ invoices' = invoices
                  /\ (ActiveInvoice(i) /\ NotSent(invoices[i]))
                        => create_next_plan(i, clock + 1).status # 200]_vars

\* a send of invoice 1, which has a sheet and a client with an accounting
\* email, has just failed at the exporter or the notifier: still unsent
C29_Witness ==
    /\ last.op = "send_invoice"
    /\ last.status = 500
    /\ last.id = 1
    /\ ActiveInvoice(1)
    /\ Sendable(1)
    /\ NotSent(invoices[1])
    /\ "sent_at" \notin DOMAIN invoices[1]

(***************************************************************************)
(* C25: cumulative billing never exceeds the contracted fee.  A            *)
(* create-invoice-from-contract request that would bring a task above 100% *)
(* of its amount is refused before any write, so every task's computed     *)
(* billed_percent is at most 100 in every reachable state.                 *)
(***************************************************************************)
C25_BilledPercentAtMost100 ==
    \A t \in DOMAIN contract_tasks : BilledState[t].billed_percent <= 100

(***************************************************************************)
(* C26: submit_payment marks an invoice paid, with paid_at, only when an   *)
(* invoice with the given number exists and is not deleted: then one such  *)
(* invoice becomes paid and every other invoice stays as it was.           *)
(* Otherwise the answer is NotFound and no invoice changes.                *)
(***************************************************************************)
C26_PaymentNeedsActiveInvoice ==
    [][\A invoice \in PaymentNumbers :
          submit_payment(invoice)
          => IF \E k \in 1..Len(invoices) :
                   /\ invoices[k].invoice_number = invoice
                   /\ invoices[k].deleted_at = NullTime
             THEN /\ last'.status = 200
                  /\ \E k \in 1..Len(invoices) :
                        /\ invoices[k].invoice_number = invoice
                        /\ invoices[k].deleted_at = NullTime
                        /\ invoices'[k].paid_status = "paid"
                        /\ invoices'[k].paid_at = clock'
                        /\ invoices'[k].paid_at # NullTime
                        /\ invoices'[k].deleted_at = NullTime
                        /\ Len(invoices') = Len(invoices)
                        /\ \A j \in 1..Len(invoices) \ {k} : invoices'[j] = invoices[j]
             ELSE /\ last'.status = 404
                  /\ invoices' = invoices]_vars

\* a payment has just marked invoice 2 paid while invoice 1, deleted earlier,
\* carries no payment
C26_Witness ==
    /\ last.op = "submit_payment"
    /\ last.status = 200
    /\ last.id = 2
    /\ Len(invoices) = 2
    /\ invoices[1].deleted_at # NullTime
    /\ "paid_status" \notin DOMAIN invoices[1]
    /\ invoices[2].paid_status = "paid"
    /\ invoices[2].paid_at = clock

(***************************************************************************)
(* C27: the project numbers that create_project assigns within one         *)
(* calendar year are pairwise distinct, and each is the year, "-" and      *)
(* 1 + the largest NNN present for that year, zero-padded to 3 digits:     *)
(* also when two requests interleave their read and their insert, and also *)
(* once the numbers pass 999.                                              *)
(***************************************************************************)
\* the largest NNN among the numbers of the year, 0 when there is none
MaxNNN(table) ==
    Max({0} \cup {int(split(n)[2]) : n \in NumbersOfYear(table)})

C27_ProjectNumbersDistinctAndSequential ==
    [][\A k \in 1..MaxInflight :
          FinishCreateProject(k)
          => LET number == inflight[k].row.project_number
             IN /\ \A p \in DOMAIN projects : projects[p].project_number # number
                /\ number = yr \o <<"-">> \o ZeroPad3(MaxNNN(projects) + 1)]_vars

(***************************************************************************)
(* C28: whatever invoices are created from a contract, continued, added    *)
(* standalone and soft-deleted, the current_invoice_id of a project that   *)
(* is not deleted is null or the id of an invoice of that project that is  *)
(* not deleted.  Deleting the invoice a project points at sets the pointer *)
(* to null; deleting any other invoice leaves it unchanged.                *)
(***************************************************************************)
CurrentIsLive(projs, invs) ==
    \A p \in DOMAIN projs :
        (projs[p].deleted_at = NullTime /\ projs[p].current_invoice_id # NullId)
        => /\ projs[p].current_invoice_id \in 1..Len(invs)
           /\ invs[projs[p].current_invoice_id].project_id = p
           /\ invs[projs[p].current_invoice_id].deleted_at = NullTime

C28_CurrentInvoiceIsLive ==
    [][/\ CurrentIsLive(projects', invoices')
       /\ \A i \in 1..MaxInvoices :
             (delete_invoice(i) /\ ActiveInvoice(i))
             => \A p \in DOMAIN projects :
                   projects'[p].current_invoice_id =
                      IF projects[p].current_invoice_id = i
                      THEN NullId
                      ELSE projects[p].current_invoice_id]_vars

\* the invoice project P1 pointed at has just been deleted and the pointer is
\* null, while an earlier invoice of P1 is still there
C28_Witness ==
    /\ last.op = "delete_invoice"
    /\ last.status = 200
    /\ last.id = 2
    /\ Len(invoices) = 2
    /\ invoices[2].project_id = "P1"
    /\ invoices[2].deleted_at # NullTime
    /\ invoices[1].project_id = "P1"
    /\ invoices[1].deleted_at = NullTime
    /\ projects["P1"].current_invoice_id = NullId

====
